---- MODULE Spec2Model ----
(***************************************************************************)
(* Segment holder, proxy segments, optimization swap and flush of the      *)
(* vector storage engine (lib/collection, lib/segment).                    *)
(*                                                                         *)
(* A holder is a record                                                    *)
(*   [segments, store, deleted_points, last_flushed_version,              *)
(*    failed_operation]                                                    *)
(* segments : SegmentId -> "None" | "Original" | "Proxy"  (LockedSegment)  *)
(* store    : SegmentId -> Segment data (for a proxy: the wrapped segment) *)
(* The write segment shared by the proxies of an optimization is           *)
(* store[TmpId]; deleted_points is the set shared by those proxies.        *)
(***************************************************************************)
EXTENDS Integers, Sequences, FiniteSets, TLC

\* ------------------------------------------------------------------ bounds
MaxOp == 3

\* ------------------------------------------------------------- universe
PointIds == {1, 2}
Vectors == {"va", "vb"}
NoVector == "none"
PayloadKeys == {"k"}

S1 == "s1"
S2 == "s2"
OptId == "opt"
TmpId == "tmp"
SegIds == {S1, S2, OptId, TmpId}

Max(a, b) == IF a >= b THEN a ELSE b
Min(a, b) == IF a <= b THEN a ELSE b

RECURSIVE SetMin(_)
SetMin(S) == LET x == CHOOSE x \in S : TRUE
             IN IF S = {x} THEN x ELSE Min(x, SetMin(S \ {x}))

RECURSIVE SortedSeq(_)
SortedSeq(S) == IF S = {} THEN <<>>
                ELSE LET m == SetMin(S) IN <<m>> \o SortedSeq(S \ {m})

Take(seq, n) == IF Len(seq) <= n THEN seq ELSE SubSeq(seq, 1, n)

SeqRange(seq) == {seq[i] : i \in 1..Len(seq)}

RECURSIVE InsertSorted(_, _)
InsertSorted(seq, x) ==
    IF seq = <<>> THEN <<x>>
    ELSE IF x <= Head(seq) THEN <<x>> \o seq
    ELSE <<Head(seq)>> \o InsertSorted(Tail(seq), x)

\* sort_unstable() of a vector of point ids (duplicates are kept)
RECURSIVE sort_unstable(_)
sort_unstable(seq) == IF seq = <<>> THEN <<>>
                ELSE InsertSorted(sort_unstable(Tail(seq)), Head(seq))

NoDuplicates(seq) == \A i, j \in 1..Len(seq) : i # j => seq[i] # seq[j]

\* ------------------------------------------------------------- Segment
\* A point of a segment: id tracker link (present), per-point version,
\* the vector (NoVector when the vector is deleted) and the payload keys.
NoPoint == [present |-> FALSE, version |-> 0, vector |-> NoVector, payload |-> {}]

EmptySegment(ids, appendable) ==
    [points |-> [p \in ids |-> NoPoint],
     version |-> 0,
     persisted_version |-> 0,
     unsaved |-> {},
     appendable_flag |-> appendable]

SegHasPoint(s, id) == s.points[id].present

\* Option<SeqNumberType>: -1 stands for None
SegPointVersion(s, id) == IF s.points[id].present THEN s.points[id].version ELSE -1

SegAvailablePoints(s) == {p \in DOMAIN s.points : s.points[p].present}

\* Per-point version guard: an operation older than the point is skipped.
\* An operation with op_num equal to the point version is executed again
\* (move_if_exists and deduplicate_points rely on it).
\* SkipByVersion_never: no operation is skipped.
SkipByVersion_never(s, op_num, id) == FALSE

SkipByVersion(s, op_num, id) ==
    s.points[id].present /\ s.points[id].version > op_num

Touch(s, op_num, id, point) ==
    [s EXCEPT !.points[id] = point,
              !.version = Max(@, op_num),
              !.unsaved = @ \cup {op_num}]

SegUpsertPoint(s, op_num, id, vector) ==
    IF SkipByVersion(s, op_num, id) THEN s
    ELSE Touch(s, op_num, id,
               [present |-> TRUE, version |-> op_num, vector |-> vector,
                payload |-> s.points[id].payload])

SegDeletePoint(s, op_num, id) ==
    IF ~s.points[id].present \/ SkipByVersion(s, op_num, id) THEN s
    ELSE Touch(s, op_num, id, NoPoint)

\* Operations on an existing point; a missing point is a PointIdError and
\* leaves the segment unchanged.
SegModify(s, op_num, id, vector, payload) ==
    IF ~s.points[id].present \/ SkipByVersion(s, op_num, id) THEN s
    ELSE Touch(s, op_num, id,
               [present |-> TRUE, version |-> op_num, vector |-> vector,
                payload |-> payload])

SegUpdateVectors(s, op_num, id, vector) ==
    SegModify(s, op_num, id, vector, s.points[id].payload)

SegDeleteVector(s, op_num, id) ==
    SegModify(s, op_num, id, NoVector, s.points[id].payload)

SegSetFullPayload(s, op_num, id, payload) ==
    SegModify(s, op_num, id, s.points[id].vector, payload)

SegSetPayload(s, op_num, id, payload) ==
    SegModify(s, op_num, id, s.points[id].vector, s.points[id].payload \cup payload)

SegDeletePayload(s, op_num, id, payload) ==
    SegModify(s, op_num, id, s.points[id].vector, s.points[id].payload \ payload)

SegClearPayload(s, op_num, id) ==
    SegModify(s, op_num, id, s.points[id].vector, {})

\* flush(sync) -> persisted version
SegFlush(s) == [s EXCEPT !.persisted_version = s.version, !.unsaved = {}]

\* ------------------------------------------------------------- Filter
NoFilter == [some |-> FALSE, must |-> <<>>, must_not |-> <<>>]
FieldCondition(key) == [type |-> "Field", key |-> key, ids |-> {}]
HasIdCondition(ids) == [type |-> "HasId", key |-> "", ids |-> ids]
MustFilter(c) == [some |-> TRUE, must |-> <<c>>, must_not |-> <<>>]
MustNotFilter(c) == [some |-> TRUE, must |-> <<>>, must_not |-> <<c>>]

CheckCondition(c, id, point) ==
    IF c.type = "HasId" THEN id \in c.ids ELSE c.key \in point.payload

CheckFilter(filter, id, point) ==
    /\ \A i \in 1..Len(filter.must) : CheckCondition(filter.must[i], id, point)
    /\ \A i \in 1..Len(filter.must_not) : ~CheckCondition(filter.must_not[i], id, point)

\* ------------------------------------------------------- Segment reads
\* Plain index: the points that carry a vector and pass the filter, best
\* first (scores are not modelled: ascending id), cut at top.
SegSearch(s, filter, top) ==
    Take(SortedSeq({p \in DOMAIN s.points :
                      /\ s.points[p].present
                      /\ s.points[p].vector # NoVector
                      /\ CheckFilter(filter, p, s.points[p])}), top)

SegReadFiltered(s, offset, limit, filter) ==
    Take(SortedSeq({p \in DOMAIN s.points :
                      /\ s.points[p].present
                      /\ p >= offset
                      /\ CheckFilter(filter, p, s.points[p])}), limit)

\* points in [from; to)
SegReadRange(s, from, to) ==
    SortedSeq({p \in DOMAIN s.points : s.points[p].present /\ p >= from /\ p < to})

\* Dispatch of one point operation on a plain segment.
\* opr = [kind, op_num, ids, vector, payload]
SegApply(s, opr, id) ==
    CASE opr.kind = "upsert" -> SegUpsertPoint(s, opr.op_num, id, opr.vector)
      [] opr.kind = "delete" -> SegDeletePoint(s, opr.op_num, id)
      [] opr.kind = "update_vectors" -> SegUpdateVectors(s, opr.op_num, id, opr.vector)
      [] opr.kind = "delete_vector" -> SegDeleteVector(s, opr.op_num, id)
      [] opr.kind = "set_payload" -> SegSetPayload(s, opr.op_num, id, opr.payload)
      [] opr.kind = "set_full_payload" -> SegSetFullPayload(s, opr.op_num, id, opr.payload)
      [] opr.kind = "delete_payload" -> SegDeletePayload(s, opr.op_num, id, opr.payload)
      [] opr.kind = "clear_payload" -> SegClearPayload(s, opr.op_num, id)

Operation(kind, op_num, ids, vector, payload) ==
    [kind |-> kind, op_num |-> op_num, ids |-> ids, vector |-> vector, payload |-> payload]

\* -------------------------------------------------------- ProxySegment
\* move_if_exists_unmarked: the copy is made but the id is not recorded in
\* deleted_points.
\* The proxy registered under sid wraps store[sid] and writes to store[TmpId].
move_if_exists_unmarked(H, sid, op_num, id) ==
    IF id \in H.deleted_points THEN H
    ELSE IF ~SegHasPoint(H.store[sid], id) THEN H
    ELSE LET pt == H.store[sid].points[id]
             w1 == SegUpsertPoint(H.store[TmpId], op_num, id, pt.vector)
             w2 == SegSetFullPayload(w1, op_num, id, pt.payload)
         IN [H EXCEPT !.store[TmpId] = w2]

move_if_exists(H, sid, op_num, id) ==
    IF id \in H.deleted_points THEN H
    ELSE IF ~SegHasPoint(H.store[sid], id) THEN H
    ELSE LET pt == H.store[sid].points[id]
             w1 == SegUpsertPoint(H.store[TmpId], op_num, id, pt.vector)
             w2 == SegSetFullPayload(w1, op_num, id, pt.payload)
         IN [H EXCEPT !.deleted_points = @ \cup {id}, !.store[TmpId] = w2]

\* delete_point: the id is recorded in deleted_points when the wrapped segment
\* has the point (ProxyDeletePoint_write_only: it is not recorded)
ProxyDeletePoint_write_only(H, sid, op_num, id) ==
    [H EXCEPT !.store[TmpId] = SegDeletePoint(@, op_num, id)]

ProxyDeletePoint(H, sid, op_num, id) ==
    LET H1 == IF SegHasPoint(H.store[sid], id)
              THEN [H EXCEPT !.deleted_points = @ \cup {id}]
              ELSE H
    IN [H1 EXCEPT !.store[TmpId] = SegDeletePoint(@, op_num, id)]

\* upsert_point, update_vectors, delete_vector, set_payload, set_full_payload,
\* delete_payload, clear_payload: move_if_exists, then the write segment.
ProxyApply(H, sid, opr, id) ==
    IF opr.kind = "delete" THEN ProxyDeletePoint(H, sid, opr.op_num, id)
    ELSE LET H1 == move_if_exists(H, sid, opr.op_num, id)
         IN [H1 EXCEPT !.store[TmpId] = SegApply(@, opr, id)]

\* a wrapper that replaces the caller's must_not conditions
replace_must_not_with_deleted_points(filter, deleted_points) ==
    [some |-> TRUE,
     must |-> filter.must,
     must_not |-> <<HasIdCondition(deleted_points)>>]

add_deleted_points_condition_to_filter(filter, deleted_points) ==
    [some |-> TRUE,
     must |-> filter.must,
     must_not |-> Append(filter.must_not, HasIdCondition(deleted_points))]

ProxySearch(H, sid, filter, top) ==
    LET wrapped_result ==
            IF H.deleted_points # {}
            THEN SegSearch(H.store[sid],
                           add_deleted_points_condition_to_filter(filter, H.deleted_points),
                           top)
            ELSE SegSearch(H.store[sid], filter, top)
        write_result == SegSearch(H.store[TmpId], filter, top)
    IN wrapped_result \o write_result

ProxyReadFiltered(H, sid, offset, limit, filter) ==
    LET read_points ==
            IF H.deleted_points = {}
            THEN SegReadFiltered(H.store[sid], offset, limit, filter)
            ELSE SegReadFiltered(H.store[sid], offset, limit,
                     add_deleted_points_condition_to_filter(filter, H.deleted_points))
        write_segment_points == SegReadFiltered(H.store[TmpId], offset, limit, filter)
    IN sort_unstable(read_points \o write_segment_points)

ProxyReadRange(H, sid, from, to) ==
    LET read_points == SelectSeq(SegReadRange(H.store[sid], from, to),
                                 LAMBDA idx : idx \notin H.deleted_points)
        write_segment_points == SegReadRange(H.store[TmpId], from, to)
    IN sort_unstable(read_points \o write_segment_points)

ProxyHasPoint(H, sid, id) ==
    IF id \in H.deleted_points THEN SegHasPoint(H.store[TmpId], id)
    ELSE SegHasPoint(H.store[TmpId], id) \/ SegHasPoint(H.store[sid], id)

ProxyPointVersion(H, sid, id) ==
    IF SegPointVersion(H.store[TmpId], id) # -1
    THEN SegPointVersion(H.store[TmpId], id)
    ELSE SegPointVersion(H.store[sid], id)

ProxyVersion(H, sid) == Max(H.store[sid].version, H.store[TmpId].version)

\* vector(), all_vectors(), payload() of the proxy
ProxyPoint(H, sid, id) ==
    IF id \in H.deleted_points THEN H.store[TmpId].points[id]
    ELSE IF SegHasPoint(H.store[TmpId], id) THEN H.store[TmpId].points[id]
    ELSE H.store[sid].points[id]

\* ------------------------------------------- LockedSegment (SegmentEntry)
Live(H) == {sid \in DOMAIN H.segments : H.segments[sid] # "None"}

EntryHasPoint(H, sid, id) ==
    IF H.segments[sid] = "Proxy" THEN ProxyHasPoint(H, sid, id)
    ELSE SegHasPoint(H.store[sid], id)

EntryPointVersion(H, sid, id) ==
    IF H.segments[sid] = "Proxy" THEN ProxyPointVersion(H, sid, id)
    ELSE SegPointVersion(H.store[sid], id)

EntryVersion(H, sid) ==
    IF H.segments[sid] = "Proxy" THEN ProxyVersion(H, sid) ELSE H.store[sid].version

EntryIsAppendable(H, sid) ==
    IF H.segments[sid] = "Proxy" THEN TRUE ELSE H.store[sid].appendable_flag

EntryPoint(H, sid, id) ==
    IF H.segments[sid] = "Proxy" THEN ProxyPoint(H, sid, id)
    ELSE H.store[sid].points[id]

EntryApply(H, sid, opr, id) ==
    IF H.segments[sid] = "Proxy" THEN ProxyApply(H, sid, opr, id)
    ELSE [H EXCEPT !.store[sid] = SegApply(@, opr, id)]

EntrySearch(H, sid, filter, top) ==
    IF H.segments[sid] = "Proxy" THEN ProxySearch(H, sid, filter, top)
    ELSE SegSearch(H.store[sid], filter, top)

\* ------------------------------------------------------- SegmentHolder
\* Iteration order of the segment map: the map is a HashMap, so the order
\* is arbitrary; both directions over the ids are explored.
SegOrder == <<S1, S2, OptId, TmpId>>
Reverse(seq) == [i \in 1..Len(seq) |-> seq[Len(seq) + 1 - i]]
Orders == {SegOrder, Reverse(SegOrder)}

appendable_segments(H) == {sid \in Live(H) : EntryIsAppendable(H, sid)}
non_appendable_segments(H) == {sid \in Live(H) : ~EntryIsAppendable(H, sid)}

segment_points(H, sid, ids) == {id \in ids : EntryHasPoint(H, sid, id)}

\* Result of a routed call: the holder after it, the ids reported as applied,
\* how often f ran for each id, and the error that ended it ("Ok" if none).
Outcome(H, ids) ==
    [h |-> H, applied |-> {}, calls |-> [id \in ids |-> 0], err |-> "Ok"]

\* Body of the closure given to apply_points by apply_points_to_appendable,
\* for one point of the segment sid; target is the segment aloha_random_write
\* locks (NoTarget when the candidate list is empty).
\* ToAppendablePoint_unrecorded: a point changed in place is not put into
\* applied_points.  ToAppendablePoint_unguarded: the version of the point is
\* not looked at.
NoTarget == "none"

ToAppendablePoint_unrecorded(acc, sid, id, opr, target) ==
    IF acc.err # "Ok" THEN acc
    ELSE IF EntryPointVersion(acc.h, sid, id) >= opr.op_num
    THEN [acc EXCEPT !.applied = @ \cup {id}]
    ELSE IF EntryIsAppendable(acc.h, sid)
    THEN [acc EXCEPT !.h = EntryApply(acc.h, sid, opr, id),
                     !.calls[id] = @ + 1]
    ELSE IF target = NoTarget
    THEN [acc EXCEPT !.err = "ServiceError"]
    ELSE LET pt == EntryPoint(acc.h, sid, id)
             h1 == EntryApply(acc.h, target,
                       Operation("upsert", opr.op_num, {id}, pt.vector, {}), id)
             h2 == EntryApply(h1, target,
                       Operation("set_full_payload", opr.op_num, {id}, NoVector, pt.payload), id)
             h3 == EntryApply(h2, sid,
                       Operation("delete", opr.op_num, {id}, NoVector, {}), id)
             h4 == EntryApply(h3, target, opr, id)
         IN [acc EXCEPT !.h = h4,
                        !.calls[id] = @ + 1,
                        !.applied = @ \cup {id}]

\* ToAppendablePoint_keeps_source: the migrated point is not deleted from the
\* segment it came from.
ToAppendablePoint_keeps_source(acc, sid, id, opr, target) ==
    IF acc.err # "Ok" THEN acc
    ELSE IF EntryPointVersion(acc.h, sid, id) >= opr.op_num
    THEN [acc EXCEPT !.applied = @ \cup {id}]
    ELSE IF EntryIsAppendable(acc.h, sid)
    THEN [acc EXCEPT !.h = EntryApply(acc.h, sid, opr, id),
                     !.calls[id] = @ + 1,
                     !.applied = @ \cup {id}]
    ELSE IF target = NoTarget
    THEN [acc EXCEPT !.err = "ServiceError"]
    ELSE LET pt == EntryPoint(acc.h, sid, id)
             h1 == EntryApply(acc.h, target,
                       Operation("upsert", opr.op_num, {id}, pt.vector, {}), id)
             h2 == EntryApply(h1, target,
                       Operation("set_full_payload", opr.op_num, {id}, NoVector, pt.payload), id)
             h4 == EntryApply(h2, target, opr, id)
         IN [acc EXCEPT !.h = h4,
                        !.calls[id] = @ + 1,
                        !.applied = @ \cup {id}]

ToAppendablePoint_unguarded(acc, sid, id, opr, target) ==
    IF acc.err # "Ok" THEN acc
    ELSE IF EntryIsAppendable(acc.h, sid)
    THEN [acc EXCEPT !.h = EntryApply(acc.h, sid, opr, id),
                     !.calls[id] = @ + 1,
                     !.applied = @ \cup {id}]
    ELSE IF target = NoTarget
    THEN [acc EXCEPT !.err = "ServiceError"]
    ELSE LET pt == EntryPoint(acc.h, sid, id)
             h1 == EntryApply(acc.h, target,
                       Operation("upsert", opr.op_num, {id}, pt.vector, {}), id)
             h2 == EntryApply(h1, target,
                       Operation("set_full_payload", opr.op_num, {id}, NoVector, pt.payload), id)
             h3 == EntryApply(h2, sid,
                       Operation("delete", opr.op_num, {id}, NoVector, {}), id)
             h4 == EntryApply(h3, target, opr, id)
         IN [acc EXCEPT !.h = h4,
                        !.calls[id] = @ + 1,
                        !.applied = @ \cup {id}]

ToAppendablePoint(acc, sid, id, opr, target) ==
    IF acc.err # "Ok" THEN acc
    ELSE IF EntryPointVersion(acc.h, sid, id) >= opr.op_num
    THEN [acc EXCEPT !.applied = @ \cup {id}]
    ELSE IF EntryIsAppendable(acc.h, sid)
    THEN [acc EXCEPT !.h = EntryApply(acc.h, sid, opr, id),
                     !.calls[id] = @ + 1,
                     !.applied = @ \cup {id}]
    ELSE IF target = NoTarget
    THEN [acc EXCEPT !.err = "ServiceError"]
    ELSE LET pt == EntryPoint(acc.h, sid, id)
             h1 == EntryApply(acc.h, target,
                       Operation("upsert", opr.op_num, {id}, pt.vector, {}), id)
             h2 == EntryApply(h1, target,
                       Operation("set_full_payload", opr.op_num, {id}, NoVector, pt.payload), id)
             h3 == EntryApply(h2, sid,
                       Operation("delete", opr.op_num, {id}, NoVector, {}), id)
             h4 == EntryApply(h3, target, opr, id)
         IN [acc EXCEPT !.h = h4,
                        !.calls[id] = @ + 1,
                        !.applied = @ \cup {id}]

RECURSIVE ToAppendablePoints(_, _, _, _, _)
ToAppendablePoints(acc, sid, points, opr, target) ==
    IF points = <<>> THEN acc
    ELSE ToAppendablePoints(ToAppendablePoint(acc, sid, Head(points), opr, target),
                            sid, Tail(points), opr, target)

RECURSIVE ToAppendableSegments(_, _, _, _)
ToAppendableSegments(acc, order, opr, target) ==
    IF order = <<>> \/ acc.err # "Ok" THEN acc
    ELSE LET sid == Head(order)
         IN IF acc.h.segments[sid] = "None"
            THEN ToAppendableSegments(acc, Tail(order), opr, target)
            ELSE ToAppendableSegments(
                     ToAppendablePoints(acc, sid,
                         SortedSeq(segment_points(acc.h, sid, opr.ids)), opr, target),
                     Tail(order), opr, target)

\* apply_points_to_appendable(op_num, ids, f), f being the operation opr
apply_points_to_appendable(H, opr, order, target) ==
    ToAppendableSegments(Outcome(H, opr.ids), order, opr, target)

\* apply_points(ids, f) with f = the operation itself on the owning segment
RECURSIVE ApplyPointsOnSegment(_, _, _, _)
ApplyPointsOnSegment(acc, sid, points, opr) ==
    IF points = <<>> THEN acc
    ELSE ApplyPointsOnSegment(
             [acc EXCEPT !.h = EntryApply(acc.h, sid, opr, Head(points)),
                         !.calls[Head(points)] = @ + 1,
                         !.applied = @ \cup {Head(points)}],
             sid, Tail(points), opr)

RECURSIVE ApplyPointsSegments(_, _, _)
ApplyPointsSegments(acc, order, opr) ==
    IF order = <<>> THEN acc
    ELSE LET sid == Head(order)
         IN IF acc.h.segments[sid] = "None"
            THEN ApplyPointsSegments(acc, Tail(order), opr)
            ELSE ApplyPointsSegments(
                     ApplyPointsOnSegment(acc, sid,
                         SortedSeq(segment_points(acc.h, sid, opr.ids)), opr),
                     Tail(order), opr)

apply_points(H, opr, order) == ApplyPointsSegments(Outcome(H, opr.ids), order, opr)

\* Points of an upsert that no segment owned go to an appendable segment.
RECURSIVE InsertNewPoints(_, _, _, _)
InsertNewPoints(H, target, points, opr) ==
    IF points = <<>> THEN H
    ELSE InsertNewPoints(EntryApply(H, target, opr, Head(points)),
                         target, Tail(points), opr)

\* upsert_points, after the routed call: the ids no segment reported are
\* inserted into the write-target segment.
InsertMissing(res, opr, target) ==
    IF res.err # "Ok" \/ opr.ids \ res.applied = {} THEN res
    ELSE IF target = NoTarget THEN [res EXCEPT !.err = "ServiceError"]
    ELSE [res EXCEPT !.h = InsertNewPoints(res.h, target,
                                           SortedSeq(opr.ids \ res.applied), opr)]

upsert_points(H, opr, order, target) ==
    InsertMissing(apply_points_to_appendable(H, opr, order, target), opr, target)

\* CollectionUpdater::update: route the operation, record a failed op_num
RecordResult(res, op_num) ==
    [res EXCEPT !.h.failed_operation =
         IF res.err = "Ok" THEN @ \ {op_num} ELSE @ \cup {op_num}]

update(H, opr, order, target) ==
    RecordResult(CASE opr.kind = "upsert" -> upsert_points(H, opr, order, target)
                   [] opr.kind = "delete" -> apply_points(H, opr, order)
                   [] OTHER -> apply_points_to_appendable(H, opr, order, target),
                 opr.op_num)

Targets(H) == IF appendable_segments(H) = {} THEN {NoTarget} ELSE appendable_segments(H)

\* ---------------------------------------------------------------- flush
\* ProxySegment::flush: [h, ret]
ProxyFlush(H, sid) ==
    IF H.deleted_points = {}
    THEN LET wrapped == SegFlush(H.store[sid])
             write == SegFlush(H.store[TmpId])
             flushed_version == Max(wrapped.persisted_version, write.persisted_version)
         IN [h |-> [H EXCEPT !.store[sid] = wrapped,
                             !.store[TmpId] = write,
                             !.last_flushed_version[sid] = flushed_version],
             ret |-> flushed_version]
    ELSE [h |-> H,
          ret |-> IF H.last_flushed_version[sid] # -1
                  THEN H.last_flushed_version[sid]
                  ELSE H.store[sid].version]

EntryFlush(H, sid) ==
    IF H.segments[sid] = "Proxy" THEN ProxyFlush(H, sid)
    ELSE [h |-> [H EXCEPT !.store[sid] = SegFlush(@)],
          ret |-> H.store[sid].version]

\* appendable segments first, then the non-appendable ones
segment_flush_ordering(H) ==
    SelectSeq(SegOrder, LAMBDA sid : sid \in appendable_segments(H))
    \o SelectSeq(SegOrder, LAMBDA sid : sid \in non_appendable_segments(H))

SeqNumberMAX == MaxOp + 1

RECURSIVE FlushSegments(_, _)
FlushSegments(acc, order) ==
    IF order = <<>> THEN acc
    ELSE LET sid == Head(order)
             segment_version == EntryVersion(acc.h, sid)
             fl == EntryFlush(acc.h, sid)
             unsaved == segment_version > fl.ret
         IN FlushSegments(
                [h |-> fl.h,
                 max_persisted_version |-> Max(acc.max_persisted_version, fl.ret),
                 min_unsaved_version |-> IF unsaved
                                         THEN Min(acc.min_unsaved_version, fl.ret)
                                         ELSE acc.min_unsaved_version,
                 has_unsaved |-> acc.has_unsaved \/ unsaved,
                 reported |-> [acc.reported EXCEPT ![sid] = fl.ret],
                 lagging |-> IF unsaved THEN acc.lagging \cup {sid} ELSE acc.lagging],
                Tail(order))

NoReports == [sid \in SegIds |-> -1]

\* flush_all_max: the highest persisted version is returned in every case
flush_all_max(H) ==
    LET acc == FlushSegments([h |-> H,
                              max_persisted_version |-> 0,
                              min_unsaved_version |-> SeqNumberMAX,
                              has_unsaved |-> FALSE,
                              reported |-> NoReports,
                              lagging |-> {}],
                             segment_flush_ordering(H))
    IN [h |-> acc.h,
        ret |-> acc.max_persisted_version,
        reported |-> acc.reported,
        lagging |-> acc.lagging]

\* flush_all(sync): [h, ret, reported, lagging]
flush_all(H) ==
    LET acc == FlushSegments([h |-> H,
                              max_persisted_version |-> 0,
                              min_unsaved_version |-> SeqNumberMAX,
                              has_unsaved |-> FALSE,
                              reported |-> NoReports,
                              lagging |-> {}],
                             segment_flush_ordering(H))
    IN [h |-> acc.h,
        ret |-> IF acc.has_unsaved THEN acc.min_unsaved_version
                ELSE acc.max_persisted_version,
        reported |-> acc.reported,
        lagging |-> acc.lagging]

\* flush_segments: confirmed version = min(failed_operation, flushed version)
\* (flush_segments_ignoring_failed: the flushed version alone)
flush_segments_ignoring_failed(H) == flush_all(H)

flush_segments(H) ==
    LET fl == flush_all(H)
    IN [fl EXCEPT !.ret = IF H.failed_operation = {} THEN @
                          ELSE Min(SetMin(H.failed_operation), @)]

\* report_optimizer_error: only the first error is kept
\* (report_optimizer_error_last: every error replaces the recorded one)
report_optimizer_error_last(H, error) == [H EXCEPT !.optimizer_errors = error]

report_optimizer_error(H, error) ==
    IF H.optimizer_errors = "none" THEN [H EXCEPT !.optimizer_errors = error] ELSE H

\* --------------------------------------------------------- optimization
\* SegmentBuilder::update_from: merge the points of other, newest version wins
\* (update_from_vectors_only: the payload of a copied point is left out)
update_from_vectors_only(self, other) ==
    [self EXCEPT
        !.version = Max(self.version, other.version),
        !.points = [p \in DOMAIN self.points |->
                      IF ~other.points[p].present THEN self.points[p]
                      ELSE IF ~self.points[p].present
                      THEN [other.points[p] EXCEPT !.payload = {}]
                      ELSE IF self.points[p].version < other.points[p].version
                      THEN [other.points[p] EXCEPT !.payload = {}]
                      ELSE self.points[p]]]

update_from(self, other) ==
    [self EXCEPT
        !.version = Max(self.version, other.version),
        !.points = [p \in DOMAIN self.points |->
                      IF ~other.points[p].present THEN self.points[p]
                      ELSE IF ~self.points[p].present THEN other.points[p]
                      ELSE IF self.points[p].version < other.points[p].version
                      THEN other.points[p]
                      ELSE self.points[p]]]

RECURSIVE BuildFrom(_, _, _)
BuildFrom(builder, H, order) ==
    IF order = <<>> THEN builder
    ELSE BuildFrom(update_from(builder, H.store[Head(order)]), H, Tail(order))

\* SegmentBuilder::build ends with flush(true)
build_new_segment(H, victims) ==
    SegFlush(BuildFrom(EmptySegment(PointIds, FALSE), H,
                       SelectSeq(SegOrder, LAMBDA sid : sid \in victims)))

\* Points deleted or moved through the proxies are no longer taken from the
\* wrapped data: they are removed from the optimized segment.
RECURSIVE DeletePoints(_, _)
DeletePoints(segment, points) ==
    IF points = <<>> THEN segment
    ELSE DeletePoints(
             SegDeletePoint(segment, SegPointVersion(segment, Head(points)), Head(points)),
             Tail(points))

\* SegmentHolder::add / remove (remove_nothing: the ids stay registered)
add(H, sid, kind, segment) ==
    [H EXCEPT !.segments[sid] = kind, !.store[sid] = segment]

remove_nothing(H, remove_ids) == H

remove(H, remove_ids) ==
    [H EXCEPT !.segments = [sid \in DOMAIN @ |-> IF sid \in remove_ids THEN "None" ELSE @[sid]],
              !.store = [sid \in DOMAIN @ |->
                           IF sid \in remove_ids
                           THEN EmptySegment(DOMAIN @[sid].points, FALSE)
                           ELSE @[sid]]]

\* ------------------------------------------------------------ the state
VARIABLES
    holder,      \* SegmentHolder with its segments and the proxy overlay
    ref,         \* the same holder fed the same operations, never optimized
    op_seq,      \* last op_num handed out by the WAL
    last_call,   \* the last routed operation and what it did
    opt,         \* the optimization task: pc, victims, built segment, and
                 \* (once done) the deleted_points its proxies had collected
    flush_ret,   \* result of the flush_all that just returned (-1: none)
    reported,    \* persisted version each segment returned to that flush_all
    wal_acked,   \* version that flush gave to wal.ack (-1: none)
    seen,        \* segment ids the last search iterated over
    scn,         \* one proxy taking a delete and an upsert from two threads
    ord,         \* two copies of a segment taking two operations in both orders
    mig,         \* one migration out of a non-appendable segment, and a reader
    dedup,       \* one deduplicate_points call over plain segments
    uh,          \* UpdateHandler: its channels, workers and optimization handles
    merge,       \* merge optimizer passes over a holder of sized segments
    est,         \* one cardinality estimation and the points it is about
    drp,         \* one LockedSegment::drop_data call and the other holders of the Arc
    prx,         \* one ProxySegment with its overlay sets, flushed and written to
    alo          \* threads taking segment write locks through aloha_random_write

vars == <<holder, ref, op_seq, last_call, opt, flush_ret, reported, wal_acked, seen,
          scn, ord, mig, dedup, uh, merge, est, drp, prx, alo>>

NoOperation == Operation("none", 0, {}, NoVector, {})

NoCall == [opr |-> NoOperation, calls |-> [id \in PointIds |-> 0], applied |-> {},
           err |-> "Ok"]

InitialSegment2(points, appendable) ==
    [points |-> [p \in PointIds |->
                   IF p \in points
                   THEN [present |-> TRUE, version |-> 1, vector |-> "va", payload |-> {}]
                   ELSE NoPoint],
     version |-> 1,
     persisted_version |-> 1,
     unsaved |-> {},
     appendable_flag |-> appendable]

InitialHolder(points, appendable) ==
    [segments |-> [sid \in SegIds |-> IF sid \in {S1, S2} THEN "Original" ELSE "None"],
     store |-> [sid \in SegIds |->
                  CASE sid = S1 -> EmptySegment(PointIds, TRUE)
                    [] sid = S2 -> InitialSegment2(points, appendable)
                    [] OTHER -> EmptySegment(PointIds, FALSE)],
     deleted_points |-> {},
     last_flushed_version |-> [sid \in SegIds |-> -1],
     failed_operation |-> {},
     optimizer_errors |-> "none"]

\* the proxy scenario and the two-order scenario when they are not running
NoScenario == [pc_delete |-> "off", pc_upsert |-> "off"]
NoOrder == [pc_a |-> 0, pc_b |-> 0]
NoMigration == [pc |-> "off"]
NoDedup == [pc |-> "off"]
NoHandler == [pc |-> "off"]
NoMerge == [pc |-> "off"]
NoEstimate == [pc |-> "off"]
NoDrop == [pc |-> "off"]
NoProxyFlush == [pc |-> "off"]
NoAloha == [pc |-> "off"]

Scenarios == <<scn, ord, mig, dedup, uh, merge, est, drp, prx, alo>>

ScenariosOff ==
    /\ scn = NoScenario
    /\ ord = NoOrder
    /\ mig = NoMigration
    /\ dedup = NoDedup
    /\ merge = NoMerge
    /\ est = NoEstimate
    /\ drp = NoDrop
    /\ prx = NoProxyFlush
    /\ alo = NoAloha
    /\ uh = NoHandler

IdleOpt == [pc |-> "idle", victims |-> {}, segment |-> EmptySegment(PointIds, FALSE),
            overlay |-> {}]

Init ==
    /\ \E points \in {{1}}, appendable \in BOOLEAN :
          /\ holder = InitialHolder(points, appendable)
          /\ ref = InitialHolder(points, appendable)
    /\ op_seq = 1
    /\ last_call = NoCall
    /\ opt = IdleOpt
    /\ flush_ret = -1
    /\ reported = NoReports
    /\ wal_acked = -1
    /\ seen = {}
    /\ ScenariosOff

\* The holder lock is write-held between the two halves of the swap.
HolderWriteLocked == opt.pc \in {"locked", "added"}

OpShapes ==
    {[kind |-> "upsert", vector |-> "vb", payload |-> {}],
     [kind |-> "update_vectors", vector |-> "va", payload |-> {}],
     [kind |-> "delete", vector |-> NoVector, payload |-> {}],
     [kind |-> "delete_vector", vector |-> NoVector, payload |-> {}],
     [kind |-> "set_payload", vector |-> NoVector, payload |-> PayloadKeys]}

IdSets == {{id} : id \in PointIds} \cup {PointIds}

FirstTarget(H) ==
    LET cands == SelectSeq(SegOrder, LAMBDA sid : sid \in appendable_segments(H))
    IN IF cands = <<>> THEN NoTarget ELSE Head(cands)

Owners(H, id) == {sid \in Live(H) : EntryHasPoint(H, sid, id)}

\* update worker: one Operation signal applied to the holder
UpdateOf(shapes) ==
    /\ ~HolderWriteLocked
    /\ op_seq < MaxOp
    /\ \E shape \in shapes, ids \in IdSets, order \in Orders, target \in Targets(holder) :
          \E opr \in {Operation(shape.kind, op_seq + 1, ids, shape.vector, shape.payload)} :
          \E res \in {update(holder, opr, order, target)} :
             /\ holder' = res.h
             /\ ref' = update(ref, opr, SegOrder, FirstTarget(ref)).h
             /\ last_call' = [opr |-> opr,
                              calls |-> [id \in PointIds |->
                                           IF id \in opr.ids THEN res.calls[id] ELSE 0],
                              applied |-> res.applied,
                              err |-> res.err]
    /\ op_seq' = op_seq + 1
    /\ flush_ret' = -1
    /\ reported' = NoReports
    /\ wal_acked' = -1
    /\ UNCHANGED <<opt, seen>>
    /\ UNCHANGED Scenarios

Update == UpdateOf(OpShapes)

\* optimize(), step 1: under the holder write lock every victim is replaced
\* by a proxy; the proxies share a fresh write segment and deleted_points.
StartOptimization ==
    /\ opt.pc = "idle"
    /\ \E victims \in (SUBSET {S1, S2}) \ {{}} :
          /\ holder' = [holder EXCEPT
                 !.segments = [sid \in SegIds |-> IF sid \in victims THEN "Proxy" ELSE @[sid]],
                 !.store[TmpId] = EmptySegment(PointIds, TRUE),
                 !.deleted_points = {},
                 !.last_flushed_version = [sid \in SegIds |-> -1]]
          /\ opt' = [opt EXCEPT !.pc = "proxied", !.victims = victims]
    /\ UNCHANGED last_call
    /\ flush_ret' = -1
    /\ reported' = NoReports
    /\ wal_acked' = -1
    /\ UNCHANGED <<ref, op_seq, seen>>
    /\ UNCHANGED Scenarios

\* step 2: the new segment is built from the wrapped segments, lock released
BuildSegment ==
    /\ opt.pc = "proxied"
    /\ opt' = [opt EXCEPT !.pc = "built",
                          !.segment = build_new_segment(holder, opt.victims)]
    /\ UNCHANGED <<holder, ref, op_seq, last_call, flush_ret, reported, wal_acked, seen>>
    /\ UNCHANGED Scenarios

\* step 3: holder write lock taken, overlay deletions applied to the new segment
SwapLock ==
    /\ opt.pc = "built"
    /\ opt' = [opt EXCEPT !.pc = "locked",
                          !.segment = DeletePoints(@, SortedSeq(holder.deleted_points))]
    /\ UNCHANGED <<holder, ref, op_seq, last_call, flush_ret, reported, wal_acked, seen>>
    /\ UNCHANGED Scenarios

\* swap(), first half: the new segment is added
SwapAdd ==
    /\ opt.pc = "locked"
    /\ holder' = add(holder, OptId, "Original", opt.segment)
    /\ opt' = [opt EXCEPT !.pc = "added"]
    /\ UNCHANGED last_call
    /\ flush_ret' = -1
    /\ UNCHANGED <<ref, op_seq, reported, wal_acked, seen>>
    /\ UNCHANGED Scenarios

\* swap(), second half: the proxies are removed; the write segment stays in
\* the holder as a plain segment; the lock is released
SwapRemove ==
    /\ opt.pc = "added"
    /\ holder' = [add(remove(holder, opt.victims), TmpId, "Original", holder.store[TmpId])
                    EXCEPT !.deleted_points = {},
                           !.last_flushed_version = [sid \in SegIds |-> -1]]
    /\ opt' = [IdleOpt EXCEPT !.pc = "done", !.victims = opt.victims,
                              !.overlay = holder.deleted_points]
    /\ UNCHANGED <<ref, op_seq, last_call, flush_ret, reported, wal_acked, seen>>
    /\ UNCHANGED Scenarios

\* flush worker tick: WAL flush, flush_segments, wal.ack
FlushTick ==
    /\ ~HolderWriteLocked
    /\ \E wal_flushed \in BOOLEAN :
          IF wal_flushed
          THEN LET fl == flush_all(holder)
                   confirmed == flush_segments(holder).ret
               IN /\ holder' = fl.h
                  /\ flush_ret' = fl.ret
                  /\ reported' = fl.reported
                  /\ wal_acked' = confirmed
          ELSE /\ holder' = report_optimizer_error(holder, "WalError")
               /\ flush_ret' = -1
               /\ reported' = NoReports
               /\ wal_acked' = -1
    /\ UNCHANGED last_call
    /\ UNCHANGED <<ref, op_seq, opt, seen>>
    /\ UNCHANGED Scenarios

\* a search takes the holder read lock and visits every segment
Search ==
    /\ ~HolderWriteLocked
    /\ seen' = Live(holder)
    /\ UNCHANGED <<holder, ref, op_seq, last_call, opt, flush_ret, reported, wal_acked>>
    /\ UNCHANGED Scenarios

\* Update worker and optimizer task: writes interleaved with an optimization.
Next ==
    \/ Update
    \/ StartOptimization
    \/ BuildSegment
    \/ SwapLock
    \/ SwapAdd
    \/ SwapRemove

Spec == Init /\ [][Next]_vars

\* Searches interleaved with an optimization and its swap.
NextSwap ==
    \/ StartOptimization
    \/ BuildSegment
    \/ SwapLock
    \/ SwapAdd
    \/ SwapRemove
    \/ Search

InitSwap ==
    /\ \E p1 \in SUBSET PointIds, p2 \in SUBSET PointIds, a1 \in BOOLEAN, a2 \in BOOLEAN :
          /\ p1 \cap p2 = {}
          /\ holder = [InitialHolder(p2, a2) EXCEPT
                           !.store[S1] = InitialSegment2(p1, a1)]
          /\ ref = holder
    /\ op_seq = 1
    /\ last_call = NoCall
    /\ opt = IdleOpt
    /\ flush_ret = -1
    /\ reported = NoReports
    /\ wal_acked = -1
    /\ seen = {}
    /\ ScenariosOff

SpecSwap == InitSwap /\ [][NextSwap]_vars

\* Update worker and flush worker over a holder whose second segment is
\* non-appendable and whose first may be, with victims wrapped by proxies.
InitWorkers ==
    /\ \E a1 \in BOOLEAN :
          /\ holder = [InitialHolder({1}, FALSE) EXCEPT !.store[S1].appendable_flag = a1]
          /\ ref = holder
    /\ op_seq = 1
    /\ last_call = NoCall
    /\ opt = IdleOpt
    /\ flush_ret = -1
    /\ reported = NoReports
    /\ wal_acked = -1
    /\ seen = {}
    /\ ScenariosOff

NextWorkers ==
    \/ Update
    \/ StartOptimization
    \/ FlushTick

SpecWorkers == InitWorkers /\ [][NextWorkers]_vars

\* Update worker alone over the same holders, victims wrapped by proxies.
NextRouting ==
    \/ Update
    \/ StartOptimization

SpecRouting == InitWorkers /\ [][NextRouting]_vars

\* Searches over the same workers when the second segment starts with two
\* points, the first of which carries the payload key; the vector of the
\* second may have been deleted.
InitSearch ==
    /\ \E a1 \in BOOLEAN, vector \in {"va", NoVector} :
          /\ holder = [InitialHolder(PointIds, FALSE) EXCEPT
                           !.store[S1].appendable_flag = a1,
                           !.store[S2].points[1].payload = PayloadKeys,
                           !.store[S2].points[2].vector = vector]
          /\ ref = holder
    /\ op_seq = 1
    /\ last_call = NoCall
    /\ opt = IdleOpt
    /\ flush_ret = -1
    /\ reported = NoReports
    /\ wal_acked = -1
    /\ seen = {}
    /\ ScenariosOff

SpecSearch == InitSearch /\ [][NextRouting]_vars

\* ------------------------------------------------- one proxy, two writers
\* A proxy over a segment with the points 1, 2, 3 (written by the operations
\* 1, 2, 3) and an empty write segment.  One thread deletes point 2 with
\* operation 10, another upserts point 4 with operation 11.  Both methods
\* take &mut self, so the lock of the proxy serialises them in either order.
ScnIds == {1, 2, 3, 4}

ScnWrapped(vectors) ==
    [points |-> [p \in ScnIds |->
                   IF p \in DOMAIN vectors
                   THEN [present |-> TRUE, version |-> p, vector |-> vectors[p], payload |-> {}]
                   ELSE NoPoint],
     version |-> Len(vectors),
     persisted_version |-> Len(vectors),
     unsaved |-> {},
     appendable_flag |-> FALSE]

ScnHolder(vectors) ==
    [segments |-> [sid \in SegIds |-> IF sid = S2 THEN "Proxy" ELSE "None"],
     store |-> [sid \in SegIds |->
                  CASE sid = S2 -> ScnWrapped(vectors)
                    [] sid = TmpId -> EmptySegment(ScnIds, TRUE)
                    [] OTHER -> EmptySegment(ScnIds, FALSE)],
     deleted_points |-> {},
     last_flushed_version |-> [sid \in SegIds |-> -1],
     failed_operation |-> {},
     optimizer_errors |-> "none"]

MainIdle ==
    /\ holder = InitialHolder({1}, FALSE)
    /\ ref = holder
    /\ op_seq = 1
    /\ last_call = NoCall
    /\ opt = IdleOpt
    /\ flush_ret = -1
    /\ reported = NoReports
    /\ wal_acked = -1
    /\ seen = {}

MainVars == <<holder, ref, op_seq, last_call, opt, flush_ret, reported, wal_acked, seen>>

InitB ==
    /\ MainIdle
    /\ ord = NoOrder
    /\ mig = NoMigration
    /\ dedup = NoDedup
    /\ merge = NoMerge
    /\ est = NoEstimate
    /\ drp = NoDrop
    /\ prx = NoProxyFlush
    /\ alo = NoAloha
    /\ uh = NoHandler
    /\ \E vectors \in [1..3 -> Vectors], v \in Vectors :
          scn = [h |-> ScnHolder(vectors), vector |-> v,
                 pc_delete |-> "ready", pc_upsert |-> "ready", result |-> <<>>]

\* proxy.delete_point(10, 2)
ScnDelete ==
    /\ scn.pc_delete = "ready"
    /\ scn' = [scn EXCEPT !.h = ProxyDeletePoint(scn.h, S2, 10, 2),
                          !.pc_delete = "done"]
    /\ UNCHANGED <<MainVars, ord, mig, dedup, uh, merge, est, drp, prx, alo>>

\* proxy.upsert_point(11, 4, v)
ScnUpsert ==
    /\ scn.pc_upsert = "ready"
    /\ scn' = [scn EXCEPT
                 !.h = ProxyApply(scn.h, S2, Operation("upsert", 11, {4}, scn.vector, {}), 4),
                 !.pc_upsert = "done"]
    /\ UNCHANGED <<MainVars, ord, mig, dedup, uh, merge, est, drp, prx, alo>>

\* proxy.search(all, top = 10) under the read lock of the proxy
ScnSearch ==
    /\ scn.pc_delete # "off"
    /\ scn' = [scn EXCEPT !.result = ProxySearch(scn.h, S2, NoFilter, 10)]
    /\ UNCHANGED <<MainVars, ord, mig, dedup, uh, merge, est, drp, prx, alo>>

NextB ==
    \/ ScnDelete
    \/ ScnUpsert
    \/ ScnSearch

SpecB == InitB /\ [][NextB]_vars

\* ------------------------------------------- two operations, both orders
\* Two copies of one segment take the operations op1 (op_num 2) and op2
\* (op_num 3) on point 1: copy a in the order op1, op2 and copy b in the
\* order op2, op1.  b_mid is copy b between its two operations.
OrdShapes ==
    OpShapes \cup
    {[kind |-> "upsert", vector |-> "va", payload |-> {}],
     [kind |-> "update_vectors", vector |-> "vb", payload |-> {}],
     [kind |-> "set_full_payload", vector |-> NoVector, payload |-> PayloadKeys],
     [kind |-> "delete_payload", vector |-> NoVector, payload |-> PayloadKeys],
     [kind |-> "clear_payload", vector |-> NoVector, payload |-> {}]}

OrdSegments ==
    {EmptySegment(PointIds, TRUE)} \cup
    {[InitialSegment2({1}, TRUE) EXCEPT !.points[1].payload = payload] :
        payload \in SUBSET PayloadKeys}

InitOrd ==
    /\ MainIdle
    /\ scn = NoScenario
    /\ mig = NoMigration
    /\ dedup = NoDedup
    /\ merge = NoMerge
    /\ est = NoEstimate
    /\ drp = NoDrop
    /\ prx = NoProxyFlush
    /\ alo = NoAloha
    /\ uh = NoHandler
    /\ \E segment \in OrdSegments, shape1 \in OrdShapes, shape2 \in OrdShapes :
          ord = [a |-> segment, b |-> segment, b_mid |-> segment,
                 op1 |-> Operation(shape1.kind, 2, {1}, shape1.vector, shape1.payload),
                 op2 |-> Operation(shape2.kind, 3, {1}, shape2.vector, shape2.payload),
                 pc_a |-> 0, pc_b |-> 0]

\* copy a: op1, then op2
OrdApplyA ==
    /\ ord.pc_a < 2
    /\ "a" \in DOMAIN ord
    /\ ord' = [ord EXCEPT
                 !.a = SegApply(@, IF ord.pc_a = 0 THEN ord.op1 ELSE ord.op2, 1),
                 !.pc_a = @ + 1]
    /\ UNCHANGED <<MainVars, scn, mig, dedup, uh, merge, est, drp, prx, alo>>

\* copy b: op2, then op1
OrdApplyB ==
    /\ ord.pc_b < 2
    /\ "b" \in DOMAIN ord
    /\ LET b1 == SegApply(ord.b, IF ord.pc_b = 0 THEN ord.op2 ELSE ord.op1, 1)
       IN ord' = [ord EXCEPT !.b = b1,
                             !.b_mid = IF ord.pc_b = 0 THEN b1 ELSE @,
                             !.pc_b = @ + 1]
    /\ UNCHANGED <<MainVars, scn, mig, dedup, uh, merge, est, drp, prx, alo>>

NextOrd ==
    \/ OrdApplyA
    \/ OrdApplyB

SpecOrd == InitOrd /\ [][NextOrd]_vars

\* --------------------------------- one migration, step by step, and a reader
\* The closure of apply_points_to_appendable for a point of a non-appendable
\* segment: every call in it ends with `?`, so a failing call returns the
\* error at once and what the earlier calls wrote stays.  A failing segment
\* operation leaves its segment unchanged.  fail_at names the call that
\* fails ("none": no call fails).
MigrationCalls ==
    {"all_vectors", "payload", "upsert_point", "set_full_payload", "delete_point", "f"}

MigratePoint(H, sid, target, id, opr, fail_at) ==
    LET pt == EntryPoint(H, sid, id)
        h1 == EntryApply(H, target,
                  Operation("upsert", opr.op_num, {id}, pt.vector, {}), id)
        h2 == EntryApply(h1, target,
                  Operation("set_full_payload", opr.op_num, {id}, NoVector, pt.payload), id)
        h3 == EntryApply(h2, sid,
                  Operation("delete", opr.op_num, {id}, NoVector, {}), id)
        h4 == EntryApply(h3, target, opr, id)
    IN CASE fail_at \in {"all_vectors", "payload", "upsert_point"} -> H
         [] fail_at = "set_full_payload" -> h1
         [] fail_at = "delete_point" -> h2
         [] fail_at = "f" -> h3
         [] OTHER -> h4

\* S2 is non-appendable and holds point 1, S1 is appendable; the operation has
\* op_num 2.  The reader goes over the segments as read_points does: one
\* segment after the other, each under its own read lock.
InitMigrate ==
    /\ \E vector \in Vectors, payload \in SUBSET PayloadKeys :
          /\ holder = [InitialHolder({1}, FALSE) EXCEPT
                           !.store[S2].points[1].vector = vector,
                           !.store[S2].points[1].payload = payload]
          /\ ref = holder
    /\ op_seq = 1
    /\ last_call = NoCall
    /\ opt = IdleOpt
    /\ flush_ret = -1
    /\ reported = NoReports
    /\ wal_acked = -1
    /\ seen = {}
    /\ scn = NoScenario
    /\ ord = NoOrder
    /\ dedup = NoDedup
    /\ merge = NoMerge
    /\ est = NoEstimate
    /\ drp = NoDrop
    /\ prx = NoProxyFlush
    /\ alo = NoAloha
    /\ uh = NoHandler
    /\ \E shape \in {s \in OpShapes : s.kind # "delete"}, order \in {<<S1, S2>>, <<S2, S1>>} :
          mig = [pc |-> "ready",
                 opr |-> Operation(shape.kind, 2, {1}, shape.vector, shape.payload),
                 before |-> holder.store[S2].points[1],
                 err |-> "Ok",
                 to_read |-> order,
                 read_in |-> {}]

\* the closure, under the write locks of the source and of the target
Migrate ==
    /\ mig.pc = "ready"
    /\ \E fail_at \in MigrationCalls \cup {"none"} :
          /\ holder' = MigratePoint(holder, S2, S1, 1, mig.opr, fail_at)
          /\ mig' = [mig EXCEPT !.pc = "returned",
                                !.err = IF fail_at = "none" THEN "Ok" ELSE "ServiceError"]
    /\ UNCHANGED <<ref, op_seq, last_call, opt, flush_ret, reported, wal_acked, seen>>
    /\ UNCHANGED <<scn, ord, dedup, uh, merge, est, drp, prx, alo>>

\* read_points: the next segment is read-locked and asked for the point
ReadNextSegment ==
    /\ mig.pc # "off"
    /\ mig.to_read # <<>>
    /\ mig' = [mig EXCEPT
                 !.to_read = Tail(@),
                 !.read_in = IF EntryHasPoint(holder, Head(mig.to_read), 1)
                             THEN @ \cup {Head(mig.to_read)} ELSE @]
    /\ UNCHANGED <<holder, ref, op_seq, last_call, opt, flush_ret, reported, wal_acked, seen>>
    /\ UNCHANGED <<scn, ord, dedup, uh, merge, est, drp, prx, alo>>

NextMigrate ==
    \/ Migrate
    \/ ReadNextSegment

SpecMigrate == InitMigrate /\ [][NextMigrate]_vars

\* ------------------------------------------------------ deduplicate_points
\* A holder of two plain segments whose points carry any versions, with copies
\* of a point in both.
DedupSegments == {S1, S2}

DedupSegment(versions) ==
    [points |-> [p \in PointIds |->
                   IF versions[p] = 0 THEN NoPoint
                   ELSE [present |-> TRUE, version |-> versions[p], vector |-> "va",
                         payload |-> {}]],
     version |-> Max(versions[1], versions[2]),
     persisted_version |-> Max(versions[1], versions[2]),
     unsaved |-> {},
     appendable_flag |-> TRUE]

InitDedup ==
    /\ \E v1 \in [PointIds -> 0..MaxOp], v2 \in [PointIds -> 0..MaxOp] :
          /\ holder = [InitialHolder({}, TRUE) EXCEPT
                           !.store[S1] = DedupSegment(v1),
                           !.store[S2] = DedupSegment(v2)]
          /\ ref = holder
    /\ op_seq = 1
    /\ last_call = NoCall
    /\ opt = IdleOpt
    /\ flush_ret = -1
    /\ reported = NoReports
    /\ wal_acked = -1
    /\ seen = {}
    /\ scn = NoScenario
    /\ ord = NoOrder
    /\ mig = NoMigration
    /\ uh = NoHandler
    /\ merge = NoMerge
    /\ est = NoEstimate
    /\ drp = NoDrop
    /\ prx = NoProxyFlush
    /\ alo = NoAloha
    /\ dedup = [pc |-> "find",
                iterators |-> [sid \in DedupSegments |->
                                 SortedSeq(SegAvailablePoints(holder.store[sid]))],
                last_point_id_opt |-> 0,
                last_segment_id_opt |-> "none",
                last_point_version_opt |-> [some |-> FALSE, version |-> -1],
                points_to_remove |-> [sid \in DedupSegments |-> <<>>],
                removed_points |-> 0]

\* The heap holds the current point of every iterator that is not exhausted;
\* pop gives an entry with the smallest point id (DedupPoint compares by
\* point id only, reversed: which of two equal ids comes first is open).
DedupHeap(d) == {sid \in DedupSegments : d.iterators[sid] # <<>>}

DedupTop(d) ==
    {sid \in DedupHeap(d) :
        \A other \in DedupHeap(d) : Head(d.iterators[sid]) <= Head(d.iterators[other])}

\* one turn of the loop of find_duplicated_points for the popped entry
DedupEntry(d, H, segment_id) ==
    LET point_id == Head(d.iterators[segment_id])
        d1 == [d EXCEPT !.iterators[segment_id] = Tail(@)]
        point_version == SegPointVersion(H.store[segment_id], point_id)
        last_point_version ==
            IF d.last_point_version_opt.some THEN d.last_point_version_opt.version
            ELSE SegPointVersion(H.store[d.last_segment_id_opt], d.last_point_id_opt)
    IN IF d.last_point_id_opt = point_id
       THEN IF point_version < last_point_version
            THEN [d1 EXCEPT
                    !.last_point_version_opt = [some |-> TRUE, version |-> last_point_version],
                    !.points_to_remove[segment_id] = Append(@, point_id)]
            ELSE [d1 EXCEPT
                    !.last_point_id_opt = point_id,
                    !.last_segment_id_opt = segment_id,
                    !.last_point_version_opt = [some |-> TRUE, version |-> point_version],
                    !.points_to_remove[d.last_segment_id_opt] = Append(@, d.last_point_id_opt)]
       ELSE [d1 EXCEPT !.last_point_id_opt = point_id,
                       !.last_segment_id_opt = segment_id]

FindDuplicatedPoints ==
    /\ dedup.pc = "find"
    /\ \E segment_id \in DedupTop(dedup) :
          dedup' = DedupEntry(dedup, holder, segment_id)
    /\ UNCHANGED <<holder, ref, op_seq, last_call, opt, flush_ret, reported, wal_acked, seen>>
    /\ UNCHANGED <<scn, ord, mig, uh, merge, est, drp, prx, alo>>

\* the points of one segment listed for removal: each is deleted at its own
\* version and counted
RECURSIVE RemoveListed(_, _)
RemoveListed(acc, points) ==
    IF points = <<>> THEN acc
    ELSE IF SegPointVersion(acc.segment, Head(points)) = -1
    THEN RemoveListed(acc, Tail(points))
    ELSE RemoveListed(
             [segment |-> SegDeletePoint(acc.segment,
                              SegPointVersion(acc.segment, Head(points)), Head(points)),
              removed |-> acc.removed + 1],
             Tail(points))

RemoveDuplicatedPoints ==
    /\ dedup.pc = "find"
    /\ DedupHeap(dedup) = {}
    /\ \E r1 \in {RemoveListed([segment |-> holder.store[S1], removed |-> 0],
                                 dedup.points_to_remove[S1])} :
       \E r2 \in {RemoveListed([segment |-> holder.store[S2], removed |-> 0],
                                 dedup.points_to_remove[S2])} :
          /\ holder' = [holder EXCEPT !.store[S1] = r1.segment, !.store[S2] = r2.segment]
          /\ dedup' = [dedup EXCEPT !.pc = "done",
                                    !.removed_points = r1.removed + r2.removed]
    /\ UNCHANGED <<ref, op_seq, last_call, opt, flush_ret, reported, wal_acked, seen>>
    /\ UNCHANGED <<scn, ord, mig, uh, merge, est, drp, prx, alo>>

NextDedup ==
    \/ FindDuplicatedPoints
    \/ RemoveDuplicatedPoints

SpecDedup == InitDedup /\ [][NextDedup]_vars

\* ----------------------------------------------------------- UpdateHandler
\* The update worker, the optimizer worker, the optimization tasks, the flush
\* worker and wait_workers_stops.  What the segments hold plays no part here:
\* an applied operation is recorded by its op_num.
MaxSignals == 3
MaxTasks == 2
update_queue_size == 2
max_optimization_threads == 1

\* UpdateSignal; an Operation with wait = true always carries a reply channel
UpdateSignals ==
    {[type |-> "Operation", wait |-> TRUE, sender |-> TRUE],
     [type |-> "Operation", wait |-> FALSE, sender |-> TRUE],
     [type |-> "Operation", wait |-> FALSE, sender |-> FALSE],
     [type |-> "Stop", wait |-> FALSE, sender |-> FALSE],
     [type |-> "Nop", wait |-> FALSE, sender |-> FALSE],
     [type |-> "Plunger", wait |-> FALSE, sender |-> TRUE]}

\* update: how CollectionUpdater::update ended; notify: how the send of
\* OptimizerSignal::Operation(op_num) ended
NoSignalState == [taken |-> FALSE, wal_flush |-> "no", replies |-> 0, result |-> "none",
                  update |-> "none", notify |-> "none"]

\* the local variables of flush_all before its loop
NoFlushAcc == [max_persisted_version |-> 0,
               min_unsaved_version |-> SeqNumberMAX,
               has_unsaved |-> FALSE,
               reported |-> NoReports,
               lagging |-> {}]

UpdateHandler(signals, nonoptimal) ==
               [pc |-> "on",
                signals |-> signals,          \* the signals the producers send
                log |-> <<>>,                 \* every signal sent, in order
                next_op |-> 0,                \* op_num of the last Operation sent
                update_channel |-> <<>>,
                closed |-> FALSE,             \* every sender of the channel dropped
                update_worker |-> "running",  \* running, forwarding, stopped
                to_forward |-> <<>>,          \* optimizer signals still to send
                forward_for |-> 0,            \* the Operation waiting for its send
                then_stop |-> FALSE,          \* the worker left its loop
                sig |-> [i \in 1..MaxSignals |-> NoSignalState],
                applied |-> <<>>,             \* op_nums given to the updater
                optimizer_channel |-> <<>>,
                optimizer_worker |-> "running",
                nonoptimal |-> nonoptimal,    \* candidate sets check_condition reports
                handles |-> <<>>,             \* optimization_handles
                tasks |-> [i \in 1..MaxTasks |-> "none"],
                asked_to_stop |-> {},
                flush_worker |-> "running",
                flush_stop |-> "armed",
                waiter |-> "idle",
                stopping_handles |-> <<>>,
                wait_result |-> "none",
                tick |-> "none",              \* how the last flush tick ended
                to_flush |-> <<>>,            \* flush_all: segments still to flush
                flush_pc |-> "idle",          \* idle, flushing
                flush_acc |-> NoFlushAcc,     \* flush_all: its local variables
                durable |-> [sid \in SegIds |-> {}]]   \* points on disk, by segment

\* The update worker and the optimizer worker, fed every kind of signal; no
\* segment needs optimizing.
InitUpdateWorker ==
    /\ MainIdle
    /\ scn = NoScenario
    /\ ord = NoOrder
    /\ mig = NoMigration
    /\ dedup = NoDedup
    /\ merge = NoMerge
    /\ est = NoEstimate
    /\ drp = NoDrop
    /\ prx = NoProxyFlush
    /\ alo = NoAloha
    /\ uh = UpdateHandler(UpdateSignals, 0)

\* All workers and the optimization tasks up to shutdown; the producers send
\* Operations without a reply channel, and Stop.
InitOptimizer ==
    /\ MainIdle
    /\ scn = NoScenario
    /\ ord = NoOrder
    /\ mig = NoMigration
    /\ dedup = NoDedup
    /\ merge = NoMerge
    /\ est = NoEstimate
    /\ drp = NoDrop
    /\ prx = NoProxyFlush
    /\ alo = NoAloha
    /\ \E nonoptimal \in 1..MaxTasks :
          uh = UpdateHandler({s \in UpdateSignals :
                                 s.type = "Stop" \/ (s.type = "Operation" /\ ~s.sender)},
                             nonoptimal)

HandlerOthers == <<ref, op_seq, last_call, opt, flush_ret, reported, wal_acked, seen,
                   scn, ord, mig, dedup, merge, est, drp, prx, alo>>

\* A producer sends the next signal; Operations get consecutive op_nums.  The
\* receiver is dropped when update_worker_fn returns: send then fails.
SendSignal ==
    /\ uh.pc = "on"
    /\ ~uh.closed
    /\ uh.update_worker # "stopped"
    /\ Len(uh.log) < MaxSignals
    /\ Len(uh.update_channel) < update_queue_size
    /\ \E signal \in uh.signals :
         \E op_num \in {IF signal.type = "Operation" THEN uh.next_op + 1 ELSE 0} :
         \E sent \in {[type |-> signal.type, wait |-> signal.wait, sender |-> signal.sender,
                        op_num |-> op_num, idx |-> Len(uh.log) + 1]} :
            uh' = [uh EXCEPT !.log = Append(@, sent),
                             !.update_channel = Append(@, sent),
                             !.next_op = IF signal.type = "Operation" THEN @ + 1 ELSE @]
    /\ UNCHANGED <<holder, HandlerOthers>>

\* every sender of the update channel is dropped
CloseChannel ==
    /\ uh.pc = "on"
    /\ ~uh.closed
    /\ uh' = [uh EXCEPT !.closed = TRUE]
    /\ UNCHANGED <<holder, HandlerOthers>>

\* receiver.recv(): the oldest signal of the channel (recv_newest: the newest)
recv_newest(channel) ==
    [signal |-> channel[Len(channel)], rest |-> SubSeq(channel, 1, Len(channel) - 1)]

recv(channel) == [signal |-> Head(channel), rest |-> Tail(channel)]

\* The updater is called only when the WAL flush of a waiting Operation did
\* not fail (updated_unless: it is called whatever the flush returned).
updated_always(flush_ok) == TRUE

updated_unless(flush_ok) == flush_ok

\* the reply given on the one-shot channel of signal idx, if it has one
\* (Reply_unless_error: an error is dropped instead of being replied)
Reply_unless_error(u, signal, result) ==
    IF signal.sender /\ result = "Ok"
    THEN [u EXCEPT !.sig[signal.idx].replies = @ + 1, !.sig[signal.idx].result = result]
    ELSE u

Reply(u, signal, result) ==
    IF signal.sender
    THEN [u EXCEPT !.sig[signal.idx].replies = @ + 1, !.sig[signal.idx].result = result]
    ELSE u

\* UpdateSignal::Stop: Stop goes to the optimizer worker and the loop is left;
\* after the loop Stop is sent once more (OnStop_continue: no break)
OnStop_continue(u) ==
    [u EXCEPT !.update_worker = "forwarding", !.to_forward = <<"Stop">>]

OnStop(u) ==
    [u EXCEPT !.update_worker = "forwarding",
              !.to_forward = <<"Stop", "Stop">>,
              !.then_stop = TRUE]

\* a loop body that sends Operation(op_num) to the optimizer worker whatever
\* the updater returned
UpdateWorkerTurn_always_send(u, signal, flush_ok, update_ok) ==
    CASE signal.type = "Operation" ->
            IF ~updated_unless(flush_ok)
            THEN Reply([u EXCEPT !.sig[signal.idx].wal_flush = "failed"],
                       signal, "ServiceError")
            ELSE [u EXCEPT !.sig[signal.idx].wal_flush =
                               IF signal.wait
                               THEN (IF flush_ok THEN "ok" ELSE "failed") ELSE "no",
                           !.sig[signal.idx].update = IF update_ok THEN "ok" ELSE "failed",
                           !.applied = Append(@, signal.op_num),
                           !.update_worker = "forwarding",
                           !.to_forward = <<"Operation">>,
                           !.forward_for = signal.idx]
      [] signal.type = "Stop" -> OnStop(u)
      [] signal.type = "Nop" ->
            [u EXCEPT !.update_worker = "forwarding", !.to_forward = <<"Nop">>]
      [] OTHER -> Reply(u, signal, "Ok")

\* one turn of the loop of update_worker_fn up to its first await on the
\* optimizer channel
UpdateWorkerTurn(u, signal, flush_ok, update_ok) ==
    CASE signal.type = "Operation" ->
            IF ~updated_unless(flush_ok)
            THEN Reply([u EXCEPT !.sig[signal.idx].wal_flush = "failed"],
                       signal, "ServiceError")
            ELSE IF ~update_ok
            THEN Reply([u EXCEPT !.sig[signal.idx].wal_flush =
                                     IF signal.wait
                                     THEN (IF flush_ok THEN "ok" ELSE "failed") ELSE "no",
                                 !.sig[signal.idx].update = "failed",
                                 !.applied = Append(@, signal.op_num)],
                       signal, "UpdateError")
            ELSE [u EXCEPT !.sig[signal.idx].wal_flush =
                               IF signal.wait
                               THEN (IF flush_ok THEN "ok" ELSE "failed") ELSE "no",
                           !.sig[signal.idx].update = "ok",
                           !.applied = Append(@, signal.op_num),
                           !.update_worker = "forwarding",
                           !.to_forward = <<"Operation">>,
                           !.forward_for = signal.idx]
      [] signal.type = "Stop" -> OnStop(u)
      [] signal.type = "Nop" ->
            [u EXCEPT !.update_worker = "forwarding", !.to_forward = <<"Nop">>]
      [] OTHER -> Reply(u, signal, "Ok")

UpdateWorkerReceive ==
    /\ uh.pc = "on"
    /\ uh.update_worker = "running"
    /\ uh.update_channel # <<>>
    /\ \E r \in {recv(uh.update_channel)} :
       \E flush_ok \in (IF r.signal.wait THEN BOOLEAN ELSE {TRUE}),
          update_ok \in (IF r.signal.type = "Operation" THEN BOOLEAN ELSE {TRUE}) :
          uh' = UpdateWorkerTurn([uh EXCEPT !.update_channel = r.rest,
                                           !.sig[r.signal.idx].taken = TRUE],
                                 r.signal, flush_ok, update_ok)
    /\ UNCHANGED <<holder, HandlerOthers>>

\* recv() returns None: the loop ends and Stop goes to the optimizer worker
UpdateWorkerChannelClosed ==
    /\ uh.pc = "on"
    /\ uh.update_worker = "running"
    /\ uh.update_channel = <<>>
    /\ uh.closed
    /\ uh' = [uh EXCEPT !.update_worker = "forwarding",
                        !.to_forward = <<"Stop">>,
                        !.then_stop = TRUE]
    /\ UNCHANGED <<holder, HandlerOthers>>

\* optimize_sender.send(..).await: waits for room in the channel, fails when
\* the optimizer worker has dropped its receiver; then the reply, if any
AfterForward(u, sent_ok) ==
    LET u1 == [u EXCEPT !.to_forward = Tail(@),
                        !.forward_for = 0,
                        !.update_worker =
                            IF Tail(u.to_forward) # <<>> THEN "forwarding"
                            ELSE IF u.then_stop THEN "stopped" ELSE "running"]
    IN IF u.forward_for = 0 THEN u1
       ELSE Reply([u1 EXCEPT !.sig[u.forward_for].notify =
                                 IF sent_ok THEN "sent" ELSE "send_error"],
                  u.log[u.forward_for], IF sent_ok THEN "Ok" ELSE "SendError")

UpdateWorkerForward ==
    /\ uh.pc = "on"
    /\ uh.update_worker = "forwarding"
    /\ IF uh.optimizer_worker = "stopped"
       THEN uh' = AfterForward(uh, FALSE)
       ELSE /\ Len(uh.optimizer_channel) < update_queue_size
            /\ uh' = AfterForward([uh EXCEPT !.optimizer_channel =
                                                Append(@, Head(uh.to_forward))], TRUE)
    /\ UNCHANGED <<holder, HandlerOthers>>

\* handles.retain(|h| !h.is_finished())
retain_unfinished(handles, tasks) ==
    SelectSeq(handles, LAMBDA h : tasks[h] = "running")

\* launch_optimization: one stoppable task for every candidate set that
\* check_condition reports; the tasks start running at once
FreeTasks(u) == {i \in 1..MaxTasks : u.tasks[i] = "none"}

NewTasks(u) ==
    {i \in FreeTasks(u) : Cardinality({j \in FreeTasks(u) : j < i}) < u.nonoptimal}

process_optimization(u) ==
    [u EXCEPT !.tasks = [i \in 1..MaxTasks |-> IF i \in NewTasks(u) THEN "running" ELSE @[i]],
              !.handles = retain_unfinished(@ \o SortedSeq(NewTasks(u)),
                              [i \in 1..MaxTasks |->
                                  IF i \in NewTasks(u) THEN "running" ELSE u.tasks[i]])]

\* one turn of the loop of optimization_worker_fn
OptimizerWorkerTurn(u, signal, recovered) ==
    CASE signal = "Stop" -> [u EXCEPT !.optimizer_worker = "stopped"]
      [] signal # "Stop" /\ signal # "Nop" /\ Len(u.handles) >= max_optimization_threads ->
            [u EXCEPT !.handles = retain_unfinished(@, u.tasks)]
      [] OTHER -> IF recovered THEN process_optimization(u) ELSE u

OptimizerWorkerReceive ==
    /\ uh.pc = "on"
    /\ uh.optimizer_worker = "running"
    /\ uh.optimizer_channel # <<>>
    /\ \E recovered \in BOOLEAN :
          uh' = OptimizerWorkerTurn([uh EXCEPT !.optimizer_channel = Tail(@)],
                                    Head(uh.optimizer_channel), recovered)
    /\ UNCHANGED <<holder, HandlerOthers>>

TaskError(task) == IF task = 1 THEN "OptimizationError1" ELSE "OptimizationError2"

\* The closure given to spawn_stoppable ends: optimize returned Ok (the
\* callback tries to send Nop), Cancelled (only a task that was asked to stop)
\* or another error (recorded on the holder, then panic!).
OptimizationEnds ==
    /\ uh.pc = "on"
    /\ \E task \in 1..MaxTasks :
          /\ uh.tasks[task] = "running"
          /\ \/ /\ uh' = [uh EXCEPT
                            !.tasks[task] = "finished",
                            !.optimizer_channel =
                                IF uh.optimizer_worker = "running"
                                   /\ Len(@) < update_queue_size
                                THEN Append(@, "Nop") ELSE @]
                /\ UNCHANGED holder
             \/ /\ task \in uh.asked_to_stop
                /\ uh' = [uh EXCEPT !.tasks[task] = "cancelled"]
                /\ UNCHANGED holder
             \/ /\ uh' = [uh EXCEPT !.tasks[task] = "panicked"]
                /\ holder' = report_optimizer_error(holder, TaskError(task))
    /\ UNCHANGED HandlerOthers

\* flush_worker: a failed WAL flush or segment flush is reported on the holder
FlushWorkerFails ==
    /\ uh.pc = "on"
    /\ uh.flush_worker = "running"
    /\ holder.optimizer_errors # "WalError"
    /\ holder' = report_optimizer_error(holder, "WalError")
    /\ UNCHANGED <<uh, HandlerOthers>>

stop_flush_worker ==
    /\ uh.pc = "on"
    /\ uh.flush_stop = "armed"
    /\ uh' = [uh EXCEPT !.flush_stop = "sent"]
    /\ UNCHANGED <<holder, HandlerOthers>>

FlushWorkerStops ==
    /\ uh.pc = "on"
    /\ uh.flush_worker = "running"
    /\ uh.flush_stop = "sent"
    /\ uh' = [uh EXCEPT !.flush_worker = "stopped"]
    /\ UNCHANGED <<holder, HandlerOthers>>

\* wait_workers_stops: the three worker handles are awaited in turn, then
\* every optimization handle is stopped and awaited; `?` returns the error of
\* an awaited task that panicked.
wait_workers_stops ==
    /\ uh.pc = "on"
    /\ \/ /\ uh.waiter = "idle"
          /\ uh' = [uh EXCEPT !.waiter = "update_worker"]
       \/ /\ uh.waiter = "update_worker"
          /\ uh.update_worker = "stopped"
          /\ uh' = [uh EXCEPT !.waiter = "optimizer_worker"]
       \/ /\ uh.waiter = "optimizer_worker"
          /\ uh.optimizer_worker = "stopped"
          /\ uh' = [uh EXCEPT !.waiter = "flush_worker"]
       \/ /\ uh.waiter = "flush_worker"
          /\ uh.flush_worker = "stopped"
          /\ uh' = [uh EXCEPT !.waiter = "optimization_handles",
                              !.stopping_handles = uh.handles,
                              !.asked_to_stop = @ \cup {uh.handles[i] : i \in 1..Len(uh.handles)},
                              !.handles = <<>>]
       \/ /\ uh.waiter = "optimization_handles"
          /\ uh.stopping_handles = <<>>
          /\ uh' = [uh EXCEPT !.waiter = "returned", !.wait_result = "Ok"]
       \/ /\ uh.waiter = "optimization_handles"
          /\ uh.stopping_handles # <<>>
          /\ uh.tasks[Head(uh.stopping_handles)] # "running"
          /\ uh' = IF uh.tasks[Head(uh.stopping_handles)] = "panicked"
                   THEN [uh EXCEPT !.waiter = "returned", !.wait_result = "JoinError"]
                   ELSE [uh EXCEPT !.stopping_handles = Tail(@)]
    /\ UNCHANGED <<holder, HandlerOthers>>

NextUpdateWorker ==
    \/ SendSignal
    \/ CloseChannel
    \/ UpdateWorkerReceive
    \/ UpdateWorkerChannelClosed
    \/ UpdateWorkerForward
    \/ OptimizerWorkerReceive

SpecUpdateWorker == InitUpdateWorker /\ [][NextUpdateWorker]_vars

NextOptimizer ==
    \/ SendSignal
    \/ UpdateWorkerReceive
    \/ UpdateWorkerForward
    \/ OptimizerWorkerReceive
    \/ OptimizationEnds
    \/ FlushWorkerFails
    \/ stop_flush_worker
    \/ FlushWorkerStops
    \/ wait_workers_stops

SpecOptimizer == InitOptimizer /\ [][NextOptimizer]_vars

\* ------------------------------------------------------------ flush worker
\* What flush_worker does after a failed WAL flush or segment flush: continue
\* (on_flush_error_return: the worker returns).
on_flush_error_return(u) == [u EXCEPT !.flush_worker = "stopped"]

on_flush_error(u) == u

\* flush_all with the flush of the fail_at-th segment of the flush order
\* returning an error: the segments before it are flushed, `?` returns
flush_all_failing(H, fail_at) ==
    FlushSegments([h |-> H,
                   max_persisted_version |-> 0,
                   min_unsaved_version |-> SeqNumberMAX,
                   has_unsaved |-> FALSE,
                   reported |-> NoReports,
                   lagging |-> {}],
                  SubSeq(segment_flush_ordering(H), 1, fail_at - 1)).h

FlushTicked(u, tick) == [u EXCEPT !.tick = tick]

\* One turn of the loop of flush_worker after the timer: WAL flush,
\* flush_segments, wal.ack(confirmed_version).
FlushWorkerTick ==
    /\ uh.pc = "on"
    /\ uh.flush_worker = "running"
    /\ ~HolderWriteLocked
    /\ \E wal_flushed \in BOOLEAN :
          IF ~wal_flushed
          THEN /\ holder' = report_optimizer_error(holder, "WalError")
               /\ uh' = on_flush_error(FlushTicked(uh, "wal_flush_failed"))
               /\ flush_ret' = -1
               /\ reported' = NoReports
               /\ wal_acked' = -1
          ELSE \E fail_at \in 0..Len(segment_flush_ordering(holder)) :
               IF fail_at # 0
               THEN /\ holder' = report_optimizer_error(
                                     flush_all_failing(holder, fail_at), "FlushError")
                    /\ uh' = on_flush_error(FlushTicked(uh, "segment_flush_failed"))
                    /\ flush_ret' = -1
                    /\ reported' = NoReports
                    /\ wal_acked' = -1
               ELSE \E acked \in BOOLEAN, fl \in {flush_all(holder)} :
                    /\ holder' = IF acked THEN fl.h
                                  ELSE report_optimizer_error(fl.h, "WalError")
                    /\ uh' = FlushTicked(uh, IF acked THEN "acked" ELSE "ack_failed")
                    /\ flush_ret' = fl.ret
                    /\ reported' = fl.reported
                    /\ wal_acked' = flush_segments(holder).ret
    /\ UNCHANGED <<ref, op_seq, last_call, opt, seen, scn, ord, mig, dedup, merge, est, drp, prx, alo>>

\* Update worker and flush worker of one handler over a holder whose second
\* segment is non-appendable and whose first may be.
InitFlushWorker ==
    /\ \E a1 \in BOOLEAN :
          /\ holder = [InitialHolder({1}, FALSE) EXCEPT !.store[S1].appendable_flag = a1]
          /\ ref = holder
    /\ op_seq = 1
    /\ last_call = NoCall
    /\ opt = IdleOpt
    /\ flush_ret = -1
    /\ reported = NoReports
    /\ wal_acked = -1
    /\ seen = {}
    /\ scn = NoScenario
    /\ ord = NoOrder
    /\ mig = NoMigration
    /\ dedup = NoDedup
    /\ merge = NoMerge
    /\ est = NoEstimate
    /\ drp = NoDrop
    /\ prx = NoProxyFlush
    /\ alo = NoAloha
    /\ uh = UpdateHandler({}, 0)

NextFlushWorker ==
    \/ Update
    \/ FlushWorkerTick
    \/ stop_flush_worker
    \/ FlushWorkerStops

SpecFlushWorker == InitFlushWorker /\ [][NextFlushWorker]_vars

\* ------------------------------------------- flush_all, segment by segment
\* flush_all runs under the read lock of the holder, like the updates, and
\* takes the read lock of one segment at a time: an update can run between
\* the flushes of two segments.
PointsOf(H, sid) == {id \in PointIds : SegHasPoint(H.store[sid], id)}

FlushAllStart ==
    /\ uh.pc = "on"
    /\ uh.flush_pc = "idle"
    /\ uh' = [uh EXCEPT !.flush_pc = "flushing",
                        !.to_flush = segment_flush_ordering(holder),
                        !.flush_acc = NoFlushAcc]
    /\ flush_ret' = -1
    /\ reported' = NoReports
    /\ wal_acked' = -1
    /\ UNCHANGED <<holder, ref, op_seq, last_call, opt, seen, scn, ord, mig, dedup, merge, est, drp, prx, alo>>

\* one turn of the loop of flush_all
FlushNextSegment ==
    /\ uh.pc = "on"
    /\ uh.flush_pc = "flushing"
    /\ uh.to_flush # <<>>
    /\ \E sid \in {Head(uh.to_flush)} :
       \E acc \in {FlushSegments([h |-> holder,
                                  max_persisted_version |-> uh.flush_acc.max_persisted_version,
                                  min_unsaved_version |-> uh.flush_acc.min_unsaved_version,
                                  has_unsaved |-> uh.flush_acc.has_unsaved,
                                  reported |-> uh.flush_acc.reported,
                                  lagging |-> uh.flush_acc.lagging],
                                 <<sid>>)} :
          /\ holder' = acc.h
          /\ uh' = [uh EXCEPT !.to_flush = Tail(@),
                              !.flush_acc = [max_persisted_version |-> acc.max_persisted_version,
                                             min_unsaved_version |-> acc.min_unsaved_version,
                                             has_unsaved |-> acc.has_unsaved,
                                             reported |-> acc.reported,
                                             lagging |-> acc.lagging],
                              !.durable[sid] = PointsOf(acc.h, sid)]
    /\ UNCHANGED <<ref, op_seq, last_call, opt, flush_ret, reported, wal_acked, seen,
                   scn, ord, mig, dedup, merge, est, drp, prx, alo>>

\* flush_all returns; flush_segments takes the minimum with the failed
\* operations and the flush worker acknowledges that version to the WAL
FlushAllReturns ==
    /\ uh.pc = "on"
    /\ uh.flush_pc = "flushing"
    /\ uh.to_flush = <<>>
    /\ \E ret \in {IF uh.flush_acc.has_unsaved THEN uh.flush_acc.min_unsaved_version
                    ELSE uh.flush_acc.max_persisted_version} :
          /\ flush_ret' = ret
          /\ wal_acked' = IF holder.failed_operation = {} THEN ret
                           ELSE Min(SetMin(holder.failed_operation), ret)
    /\ reported' = uh.flush_acc.reported
    /\ uh' = [uh EXCEPT !.flush_pc = "idle"]
    /\ UNCHANGED <<holder, ref, op_seq, last_call, opt, seen, scn, ord, mig, dedup, merge, est, drp, prx, alo>>

\* the updates of this scenario delete no point
KeepingShapes == {shape \in OpShapes : shape.kind # "delete"}

UpdateKeeping == UpdateOf(KeepingShapes)

\* An appendable first segment and a non-appendable second segment holding
\* point 1, both flushed.
InitFlushOrder ==
    /\ MainIdle
    /\ scn = NoScenario
    /\ ord = NoOrder
    /\ mig = NoMigration
    /\ dedup = NoDedup
    /\ merge = NoMerge
    /\ est = NoEstimate
    /\ drp = NoDrop
    /\ prx = NoProxyFlush
    /\ alo = NoAloha
    /\ uh = [UpdateHandler({}, 0) EXCEPT
                !.durable = [sid \in SegIds |-> PointsOf(InitialHolder({1}, FALSE), sid)]]

NextFlushOrder ==
    \/ UpdateKeeping
    \/ FlushAllStart
    \/ FlushNextSegment
    \/ FlushAllReturns

SpecFlushOrder == InitFlushOrder /\ [][NextFlushOrder]_vars

\* ------------------------------------------------- failing proxy mutation
\* The calls of ProxySegment::upsert_point that can return an error; a
\* failing call on a plain segment leaves that segment as it was.
FailingCalls == {"all_vectors", "move_upsert_point", "move_set_full_payload", "upsert_point"}

\* move_if_exists with the named call failing: [h, err]
move_if_exists_failing(H, sid, op_num, id, failing) ==
    IF id \in H.deleted_points THEN [h |-> H, err |-> "Ok"]
    ELSE IF ~SegHasPoint(H.store[sid], id) THEN [h |-> H, err |-> "Ok"]
    ELSE IF failing = "all_vectors" THEN [h |-> H, err |-> "ServiceError"]
    ELSE IF failing = "move_upsert_point"
    THEN [h |-> [H EXCEPT !.deleted_points = @ \cup {id}], err |-> "ServiceError"]
    ELSE IF failing = "move_set_full_payload"
    THEN [h |-> [H EXCEPT !.deleted_points = @ \cup {id},
                          !.store[TmpId] = SegUpsertPoint(@, op_num, id,
                                                          H.store[sid].points[id].vector)],
          err |-> "ServiceError"]
    ELSE [h |-> move_if_exists(H, sid, op_num, id), err |-> "Ok"]

\* ProxySegment::upsert_point with the named call failing: [h, err]
upsert_point_failing(H, sid, op_num, id, vector, failing) ==
    LET moved == move_if_exists_failing(H, sid, op_num, id, failing)
    IN IF moved.err # "Ok" THEN moved
       ELSE IF failing = "upsert_point" THEN [h |-> moved.h, err |-> "ServiceError"]
       ELSE [h |-> [moved.h EXCEPT !.store[TmpId] = SegUpsertPoint(@, op_num, id, vector)],
             err |-> "Ok"]

\* update worker: an upsert of one point owned by a proxy fails inside the proxy
ProxyUpsertFails ==
    /\ ~HolderWriteLocked
    /\ op_seq < MaxOp
    /\ \E sid \in {sid \in SegIds : holder.segments[sid] = "Proxy"},
          id \in PointIds, vector \in Vectors, failing \in FailingCalls :
          /\ Owners(holder, id) = {sid}
          /\ \E opr \in {Operation("upsert", op_seq + 1, {id}, vector, {})} :
             \E res \in {RecordResult(
                             upsert_point_failing(holder, sid, opr.op_num, id, vector, failing),
                             opr.op_num)} :
                /\ res.err # "Ok"
                /\ holder' = res.h
                /\ last_call' = [opr |-> opr,
                                 calls |-> [p \in PointIds |-> IF p = id THEN 1 ELSE 0],
                                 applied |-> {},
                                 err |-> res.err]
    /\ op_seq' = op_seq + 1
    /\ flush_ret' = -1
    /\ reported' = NoReports
    /\ wal_acked' = -1
    /\ UNCHANGED <<ref, opt, seen>>
    /\ UNCHANGED Scenarios

NextProxyError ==
    \/ Update
    \/ StartOptimization
    \/ ProxyUpsertFails

SpecProxyError == InitWorkers /\ [][NextProxyError]_vars

\* ------------------------------------------------------------ batch search
\* Similarity of a stored vector to the query: the same vector scores best.
Score(query, vector) == IF vector = query THEN 2 ELSE 1

RECURSIVE BestFirst(_, _, _)
BestFirst(ids, s, query) ==
    IF ids = {} THEN <<>>
    ELSE LET best == CHOOSE id \in ids : \A other \in ids :
                         \/ Score(query, s.points[id].vector)
                              > Score(query, s.points[other].vector)
                         \/ /\ Score(query, s.points[id].vector)
                                 = Score(query, s.points[other].vector)
                            /\ id <= other
         IN <<[id |-> best, version |-> s.points[best].version,
               score |-> Score(query, s.points[best].vector)]>>
            \o BestFirst(ids \ {best}, s, query)

\* Segment::search: the top scored points that carry a vector and pass the filter
SegSearchVector(s, query, filter, top) ==
    Take(BestFirst({p \in DOMAIN s.points :
                      /\ s.points[p].present
                      /\ s.points[p].vector # NoVector
                      /\ CheckFilter(filter, p, s.points[p])}, s, query), top)

\* Segment::search_batch: one result per query vector
SegSearchBatch(s, queries, filter, top) ==
    [i \in 1..Len(queries) |-> SegSearchVector(s, queries[i], filter, top)]

\* ProxySegment::search
search(H, sid, query, filter, top) ==
    LET wrapped_result ==
            IF H.deleted_points # {}
            THEN SegSearchVector(H.store[sid], query,
                     add_deleted_points_condition_to_filter(filter, H.deleted_points), top)
            ELSE SegSearchVector(H.store[sid], query, filter, top)
        write_result == SegSearchVector(H.store[TmpId], query, filter, top)
    IN wrapped_result \o write_result

\* search_batch_unfiltered: the wrapped segment is searched with the filter
\* as given
search_batch_unfiltered(H, sid, queries, filter, top) ==
    LET wrapped_results == SegSearchBatch(H.store[sid], queries, filter, top)
        write_results == SegSearchBatch(H.store[TmpId], queries, filter, top)
    IN [index \in 1..Len(write_results) |-> wrapped_results[index] \o write_results[index]]

\* ProxySegment::search_batch
search_batch(H, sid, queries, filter, top) ==
    LET wrapped_results ==
            IF H.deleted_points # {}
            THEN SegSearchBatch(H.store[sid], queries,
                     add_deleted_points_condition_to_filter(filter, H.deleted_points), top)
            ELSE SegSearchBatch(H.store[sid], queries, filter, top)
        write_results == SegSearchBatch(H.store[TmpId], queries, filter, top)
    IN [index \in 1..Len(write_results) |-> wrapped_results[index] \o write_results[index]]

QueryLists == UNION {[1..n -> Vectors] : n \in 0..2}

\* ---------------------------------------------------------- merge optimizer
\* A holder of segments, each with its size in bytes
\* (available_point_count * max vector dim * VECTOR_ELEMENT_SIZE) and its
\* segment type; segment 3 may be the proxy of another optimization.  The
\* merge optimizer is run until it proposes nothing.
MaxMergeSegments == 5
SegmentSizes == 1..3
SizeLimits == {4, 7}          \* max_segment_size * BYTES_IN_KB
SegmentLimits == {2, 3}       \* max_segments

RECURSIVE SizeSum(_, _)
SizeSum(ids, segments) ==
    IF ids = {} THEN 0
    ELSE LET sid == CHOOSE sid \in ids : TRUE
         IN segments[sid].size + SizeSum(ids \ {sid}, segments)

\* sorted_by_key(size): stable, ties in the order of the ids
\* (unsorted: the segments are left in the order of their ids)
unsorted(ids, segments) == SortedSeq(ids)

RECURSIVE sorted_by_key(_, _)
sorted_by_key(ids, segments) ==
    IF ids = {} THEN <<>>
    ELSE LET first == CHOOSE sid \in ids : \A other \in ids :
                          \/ segments[sid].size < segments[other].size
                          \/ segments[sid].size = segments[other].size /\ sid <= other
         IN <<first>> \o sorted_by_key(ids \ {first}, segments)

\* scan + take_while: the longest prefix whose cumulative size is below the limit
RECURSIVE take_while_below(_, _, _, _)
take_while_below(seq, segments, size_sum, limit) ==
    IF seq = <<>> THEN <<>>
    ELSE IF size_sum + segments[Head(seq)].size < limit
    THEN <<Head(seq)>> \o take_while_below(Tail(seq), segments,
                                           size_sum + segments[Head(seq)].size, limit)
    ELSE <<>>

\* fewer than three candidates are not merged (enough_two: fewer than two)
enough_two(candidates) == Len(candidates) >= 2

enough(candidates) == Len(candidates) >= 3

\* a filter that lets the proxies through
raw_segments_any_kind(segments, excluded_ids) ==
    {sid \in DOMAIN segments : sid \notin excluded_ids}

raw_segments(segments, excluded_ids) ==
    {sid \in DOMAIN segments : segments[sid].kind = "Original" /\ sid \notin excluded_ids}

\* MergeOptimizer::check_condition
check_condition(segments, excluded_ids, max_segments, limit) ==
    LET raw == raw_segments(segments, excluded_ids)
    IN IF Cardinality(raw) <= max_segments THEN <<>>
       ELSE LET max_candidates == Cardinality(raw) - max_segments + 2
                candidates ==
                    Take(take_while_below(
                             sorted_by_key({sid \in raw : ~segments[sid].special}, segments),
                             segments, 0, limit),
                         max_candidates)
            IN IF enough(candidates) THEN candidates ELSE <<>>

MergeSegment(special, size) == [kind |-> "Original", special |-> special, size |-> size]

InitMerge ==
    /\ MainIdle
    /\ scn = NoScenario
    /\ ord = NoOrder
    /\ mig = NoMigration
    /\ dedup = NoDedup
    /\ uh = NoHandler
    /\ est = NoEstimate
    /\ drp = NoDrop
    /\ prx = NoProxyFlush
    /\ alo = NoAloha
    /\ \E n \in 3..MaxMergeSegments :
       \E sizes \in [1..n -> SegmentSizes], special \in BOOLEAN, excluded_ids \in {{}, {2}},
          proxied \in {{}, {3}}, max_segments \in SegmentLimits, limit \in SizeLimits :
          merge = [pc |-> "check",
                   segments |-> [sid \in 1..n |->
                                    IF sid \in proxied
                                    THEN [MergeSegment(FALSE, sizes[sid]) EXCEPT !.kind = "Proxy"]
                                    ELSE MergeSegment(special /\ sid = 1, sizes[sid])],
                   next_id |-> n + 1,
                   excluded_ids |-> excluded_ids,
                   max_segments |-> max_segments,
                   limit |-> limit,
                   candidates |-> <<>>,
                   before |-> <<>>,
                   merged |-> <<>>,
                   optimizations |-> 0]

MergeOthers == <<holder, ref, op_seq, last_call, opt, flush_ret, reported, wal_acked, seen,
                 scn, ord, mig, dedup, uh, est, drp, prx, alo>>

\* check_condition is asked for the next candidates
MergeCheck ==
    /\ merge.pc = "check"
    /\ \E candidates \in {check_condition(merge.segments, merge.excluded_ids,
                                           merge.max_segments, merge.limit)} :
          merge' = [merge EXCEPT !.candidates = candidates,
                                 !.pc = IF candidates = <<>> THEN "passed" ELSE "optimize"]
    /\ UNCHANGED MergeOthers

\* optimize(candidates) completes: the candidates are replaced by the segment
\* built from them; the write segment of the proxies stays in the holder, or
\* is dropped when nothing was written to it
MergeOptimize ==
    /\ merge.pc = "optimize"
    /\ \E written \in 0..1, kept \in BOOLEAN :
          /\ written > 0 => kept
          /\ \E victims \in {SeqRange(merge.candidates)} :
             \E rest \in {[sid \in DOMAIN merge.segments \ victims |-> merge.segments[sid]]} :
             \E built \in {MergeSegment(FALSE, SizeSum(victims, merge.segments))} :
                merge' = [merge EXCEPT
                    !.segments =
                        [sid \in DOMAIN rest \cup {merge.next_id}
                                  \cup (IF kept THEN {merge.next_id + 1} ELSE {}) |->
                            IF sid \in DOMAIN rest THEN rest[sid]
                            ELSE IF sid = merge.next_id THEN built
                            ELSE MergeSegment(FALSE, written)],
                    !.next_id = @ + 2,
                    !.before = merge.segments,
                    !.merged = merge.candidates,
                    !.candidates = <<>>,
                    !.optimizations = @ + 1,
                    !.pc = "check"]
    /\ UNCHANGED MergeOthers

NextMerge ==
    \/ MergeCheck
    \/ MergeOptimize

SpecMerge == InitMerge /\ [][NextMerge]_vars

\* ------------------------------------------------------ cardinality estimator
\* Filters over two leaf conditions "a" and "b", whose matching points and
\* estimations are drawn at the start, and over "f", the filter estimated last
\* (a Condition::Filter nested in the next one).
TOTAL == 4
FilterSizes == 0..2
Depths == {0, 1}
Conditions == {"a", "b", "f"}

CardinalityEstimation(min, exp, max) == [min |-> min, exp |-> exp, max |-> max]

exact(count) == CardinalityEstimation(count, count, count)

unknown(total) == CardinalityEstimation(0, total \div 2, total)

\* f64::round of the non-negative quotient a / b: half away from zero
Round(a, b) == (2 * a + b) \div (2 * b)

RECURSIVE Power(_, _)
Power(base, n) == IF n = 0 THEN 1 ELSE base * Power(base, n - 1)

RECURSIVE SeqSum(_)
SeqSum(seq) == IF seq = <<>> THEN 0 ELSE Head(seq) + SeqSum(Tail(seq))

RECURSIVE SeqProduct(_)
SeqProduct(seq) == IF seq = <<>> THEN 1 ELSE Head(seq) * SeqProduct(Tail(seq))

RECURSIVE SeqMax(_, _)
SeqMax(seq, default) ==
    IF seq = <<>> THEN default
    ELSE IF Tail(seq) = <<>> THEN Head(seq)
    ELSE Max(Head(seq), SeqMax(Tail(seq), default))

RECURSIVE SeqMin(_, _)
SeqMin(seq, default) ==
    IF seq = <<>> THEN default
    ELSE IF Tail(seq) = <<>> THEN Head(seq)
    ELSE Min(Head(seq), SeqMin(Tail(seq), default))

Mins(estimations) == [i \in 1..Len(estimations) |-> estimations[i].min]
Exps(estimations) == [i \in 1..Len(estimations) |-> estimations[i].exp]
Maxs(estimations) == [i \in 1..Len(estimations) |-> estimations[i].max]

\* expected count of a should clause (should_exp_sum: the branches' expected
\* counts are added up)
should_exp_sum(estimations, total) == SeqSum(Exps(estimations))

should_exp(estimations, total) ==
    Round(total * (Power(total, Len(estimations))
                   - SeqProduct([i \in 1..Len(estimations) |-> total - estimations[i].exp])),
          Power(total, Len(estimations)))

\* least count of a should clause (should_min_sum: the branches' least
\* counts are added up)
should_min_sum(estimations) == SeqSum(Mins(estimations))

should_min(estimations) == SeqMax(Mins(estimations), 0)

combine_should_estimations(estimations, total) ==
    CardinalityEstimation(should_min(estimations),
                          should_exp(estimations, total),
                          Min(SeqSum(Maxs(estimations)), total))

RECURSIVE must_min_fold(_, _, _)
must_min_fold(mins, acc, total) ==
    IF mins = <<>> THEN acc
    ELSE must_min_fold(Tail(mins), Max(0, acc + Head(mins) - total), total)

combine_must_estimations(estimations, total) ==
    CardinalityEstimation(must_min_fold(Mins(estimations), total, total),
                          Round(total * SeqProduct(Exps(estimations)),
                                Power(total, Len(estimations))),
                          SeqMin(Maxs(estimations), total))

invert_estimation(estimation, total) ==
    CardinalityEstimation(total - estimation.max,
                          total - estimation.exp,
                          total - estimation.min)

\* a leaf is answered by the estimator, a nested filter by the estimation
\* estimate_filter returned for it
estimate_condition(known, condition, total) == known[condition].estimation

estimate_should(known, conditions, total) ==
    combine_should_estimations(
        [i \in 1..Len(conditions) |-> estimate_condition(known, conditions[i], total)], total)

estimate_must(known, conditions, total) ==
    combine_must_estimations(
        [i \in 1..Len(conditions) |-> estimate_condition(known, conditions[i], total)], total)

estimate_must_not(known, conditions, total) ==
    combine_must_estimations(
        [i \in 1..Len(conditions) |->
            invert_estimation(estimate_condition(known, conditions[i], total), total)], total)

estimate_filter(known, filter, total) ==
    combine_must_estimations(
        (IF filter.must # <<>> THEN <<estimate_must(known, filter.must, total)>> ELSE <<>>)
        \o (IF filter.should # <<>>
            THEN <<estimate_should(known, filter.should, total)>> ELSE <<>>)
        \o (IF filter.must_not # <<>>
            THEN <<estimate_must_not(known, filter.must_not, total)>> ELSE <<>>),
        total)

\* the points a filter selects
FilterPoints(known, filter, total) ==
    {p \in 1..total :
        /\ \A i \in 1..Len(filter.must) : p \in known[filter.must[i]].points
        /\ \/ filter.should = <<>>
           \/ \E i \in 1..Len(filter.should) : p \in known[filter.should[i]].points
        /\ \A i \in 1..Len(filter.must_not) : p \notin known[filter.must_not[i]].points}

ConditionLists == UNION {[1..n -> Conditions] : n \in FilterSizes}

Filters ==
    {filter \in [must : ConditionLists, should : ConditionLists, must_not : ConditionLists] :
        Len(filter.must) + Len(filter.should) + Len(filter.must_not) \in FilterSizes}

Nests(filter) ==
    \E clause \in {"must", "should", "must_not"} :
        \E i \in 1..Len(filter[clause]) : filter[clause][i] = "f"

Clauses(filter) ==
    {clause \in {"must", "should", "must_not"} : filter[clause] # <<>>}

\* estimations a field index may give for a condition matching count points
LeafEstimations(count, total) ==
    {estimation \in [min : {0, count}, exp : 0..total, max : {count, total}] :
        estimation.min <= estimation.exp /\ estimation.exp <= estimation.max}

InitEstimate ==
    /\ MainIdle
    /\ scn = NoScenario
    /\ ord = NoOrder
    /\ mig = NoMigration
    /\ dedup = NoDedup
    /\ uh = NoHandler
    /\ merge = NoMerge
    /\ drp = NoDrop
    /\ prx = NoProxyFlush
    /\ alo = NoAloha
    /\ \E total \in {TOTAL} :
       \E count_a \in 0..total, count_b \in {total \div 2}, overlapping \in BOOLEAN :
       \E estimation_a \in LeafEstimations(count_a, total),
          estimation_b \in {exact(count_b), unknown(total)} :
          est = [pc |-> "estimate",
                 total |-> total,
                 known |-> [condition \in Conditions |->
                     CASE condition = "a" ->
                            [points |-> 1..count_a, estimation |-> estimation_a]
                       [] condition = "b" ->
                            [points |-> IF overlapping THEN 1..count_b
                                        ELSE (total - count_b + 1)..total,
                             estimation |-> estimation_b]
                       [] OTHER ->
                            [points |-> 1..total, estimation |-> exact(total)]],
                 depth |-> 0,
                 clauses |-> {}]

EstimateOthers == <<holder, ref, op_seq, last_call, opt, flush_ret, reported, wal_acked, seen,
                    scn, ord, mig, dedup, uh, merge, drp, prx, alo>>

\* estimate_filter is called for a filter over the leaves and the filter
\* estimated before
EstimateFilter ==
    /\ est.pc = "estimate"
    /\ est.depth \in Depths
    /\ \E filter \in Filters :
          /\ est.depth > 0 => Nests(filter)
          /\ est' = [est EXCEPT
              !.known["f"] = [points |-> FilterPoints(est.known, filter, est.total),
                              estimation |-> estimate_filter(est.known, filter, est.total)],
              !.depth = @ + 1,
              !.clauses = @ \cup Clauses(filter)]
    /\ UNCHANGED EstimateOthers

NextEstimate == EstimateFilter

SpecEstimate == InitEstimate /\ [][NextEstimate]_vars

\* ------------------------------------------- adjustment to available vectors
\* Estimations over the small totals, and over 22 and 200 points with members
\* drawn from a few values.
LargeTotals == {22, 200}
LargeCounts == {0, 11, 15, 16, 50, 64, 100}
AdjustTotals == 0..TOTAL \cup LargeTotals

Counts(total) ==
    IF total \in LargeTotals THEN {count \in LargeCounts : count <= total} \cup {total}
    ELSE 0..total

\* (estimation.exp, available_vectors, available_points) among the drawn
\* inputs for which the f64 product exp * (available_vectors /
\* available_points) is below the tie the exact product sits on: 15.0 / 22.0
\* is rounded down, and 11.0 times it is 7.499999999999999
BelowTie == {<<11, 15, 22>>}

\* (estimation.exp as f64 * availability_prob).round() as usize
round_exp(exp, available_vectors, available_points) ==
    IF <<exp, available_vectors, available_points>> \in BelowTie
    THEN Round(exp * Min(available_vectors, available_points), available_points) - 1
    ELSE Round(exp * Min(available_vectors, available_points), available_points)

\* saturating_sub (number_of_deleted_vectors_none: no vector counts as deleted)
number_of_deleted_vectors_none(available_vectors, available_points) == 0

number_of_deleted_vectors(available_vectors, available_points) ==
    Max(0, available_points - available_vectors)

adjust_to_available_vectors(estimation, available_vectors, available_points) ==
    IF available_points = 0 \/ available_vectors = 0
    THEN CardinalityEstimation(0, 0, 0)
    ELSE CardinalityEstimation(
             Max(0, estimation.min
                    - number_of_deleted_vectors(available_vectors, available_points)),
             round_exp(estimation.exp, available_vectors, available_points),
             Min(Min(estimation.max, available_vectors), available_points))

InitAdjust ==
    /\ MainIdle
    /\ scn = NoScenario
    /\ ord = NoOrder
    /\ mig = NoMigration
    /\ dedup = NoDedup
    /\ uh = NoHandler
    /\ merge = NoMerge
    /\ drp = NoDrop
    /\ prx = NoProxyFlush
    /\ alo = NoAloha
    /\ \E available_points \in AdjustTotals :
       \E available_vectors \in Counts(available_points),
          estimation \in [min : Counts(available_points), exp : Counts(available_points),
                          max : Counts(available_points)] :
          /\ estimation.min <= estimation.exp
          /\ estimation.exp <= estimation.max
          /\ est = [pc |-> "adjust",
                    estimation |-> estimation,
                    available_vectors |-> available_vectors,
                    available_points |-> available_points,
                    adjusted |-> CardinalityEstimation(0, 0, 0)]

AdjustToAvailable ==
    /\ est.pc = "adjust"
    /\ est' = [est EXCEPT
           !.adjusted = adjust_to_available_vectors(est.estimation, est.available_vectors,
                                                    est.available_points),
           !.pc = "adjusted"]
    /\ UNCHANGED EstimateOthers

NextAdjust == AdjustToAvailable

SpecAdjust == InitAdjust /\ [][NextAdjust]_vars

\* --------------------------------------------------- LockedSegment::drop_data
\* drop_data on a segment taken out of the holder while up to MaxReaders other
\* threads still hold a clone of its Arc. Time is counted in sleeps of
\* DROP_SPIN_TIMEOUT; DROP_DATA_TIMEOUT is TimeoutSpins of them.
MaxReaders == 3
TimeoutSpins == 3

InitDrop ==
    /\ MainIdle
    /\ scn = NoScenario
    /\ ord = NoOrder
    /\ mig = NoMigration
    /\ dedup = NoDedup
    /\ uh = NoHandler
    /\ merge = NoMerge
    /\ est = NoEstimate
    /\ prx = NoProxyFlush
    /\ alo = NoAloha
    /\ \E kind \in {"Original", "Proxy"}, readers \in SUBSET (1..MaxReaders) :
          drp = [pc |-> "try_unwrap",
                 kind |-> kind,
                 readers |-> readers,
                 timeout |-> TimeoutSpins,
                 slept |-> 0,
                 data |-> "stored",
                 result |-> "none"]

DropOthers == <<holder, ref, op_seq, last_call, opt, flush_ret, reported, wal_acked, seen,
                scn, ord, mig, dedup, uh, merge, est, prx, alo>>

\* try_unwrap_with_timeout, Arc::try_unwrap: with no other clone left the
\* segment is unwrapped and its data dropped, otherwise the thread sleeps
TryUnwrap ==
    /\ drp.pc = "try_unwrap"
    /\ drp' = IF drp.timeout = 0
              THEN [drp EXCEPT !.pc = "returned", !.result = "ServiceError"]
              ELSE IF drp.readers = {}
              THEN [drp EXCEPT !.pc = "returned", !.data = "dropped", !.result = "Ok"]
              ELSE [drp EXCEPT !.pc = "sleep"]
    /\ UNCHANGED DropOthers

\* sleep(spin), then the loop tries again; sleeps beyond the timeout are not
\* told apart
SleepSpin ==
    /\ drp.pc = "sleep"
    /\ drp' = [drp EXCEPT !.pc = "try_unwrap",
                          !.slept = Min(@ + 1, drp.timeout + 1)]
    /\ UNCHANGED DropOthers

\* another thread drops its clone of the Arc
ReaderReleases ==
    /\ drp.pc # "off"
    /\ \E reader \in drp.readers :
          drp' = [drp EXCEPT !.readers = @ \ {reader}]
    /\ UNCHANGED DropOthers

NextDrop ==
    \/ TryUnwrap
    \/ SleepSpin
    \/ ReaderReleases

SpecDrop == InitDrop /\ [][NextDrop]_vars

\* -------------------------------------------------------- ProxySegment::flush
\* One proxy with its three overlay sets. Of the wrapped and the write segment
\* only the version and the persisted version are kept; a flush of a plain
\* segment persists its version and returns it.
IndexKeys == {"k"}

Flushed(segment) == [segment EXCEPT !.persisted_version = segment.version]

\* flush_without_indexes: only deleted_points is looked at
flush_without_indexes(proxy) ==
    IF proxy.deleted_points = {}
    THEN LET wrapped == Flushed(proxy.wrapped_segment)
             write == Flushed(proxy.write_segment)
             flushed_version == Max(wrapped.persisted_version, write.persisted_version)
         IN [proxy |-> [proxy EXCEPT !.wrapped_segment = wrapped,
                                     !.write_segment = write,
                                     !.last_flushed_version = flushed_version],
             ret |-> flushed_version]
    ELSE [proxy |-> proxy,
          ret |-> IF proxy.last_flushed_version # -1 THEN proxy.last_flushed_version
                  ELSE proxy.wrapped_segment.version]

\* ProxySegment::flush: [proxy, ret]; last_flushed_version -1 is None
flush(proxy) ==
    IF /\ proxy.deleted_points = {}
       /\ proxy.deleted_indexes = {}
       /\ proxy.created_indexes = {}
    THEN LET wrapped == Flushed(proxy.wrapped_segment)
             write == Flushed(proxy.write_segment)
             flushed_version == Max(wrapped.persisted_version, write.persisted_version)
         IN [proxy |-> [proxy EXCEPT !.wrapped_segment = wrapped,
                                     !.write_segment = write,
                                     !.last_flushed_version = flushed_version],
             ret |-> flushed_version]
    ELSE [proxy |-> proxy,
          ret |-> IF proxy.last_flushed_version # -1 THEN proxy.last_flushed_version
                  ELSE proxy.wrapped_segment.version]

NoFlushCall == [ret |-> -1, before |-> <<>>, flushes |-> 0]

InitProxyFlush ==
    /\ MainIdle
    /\ scn = NoScenario
    /\ ord = NoOrder
    /\ mig = NoMigration
    /\ dedup = NoDedup
    /\ uh = NoHandler
    /\ merge = NoMerge
    /\ est = NoEstimate
    /\ drp = NoDrop
    /\ alo = NoAloha
    /\ \E persisted_version \in 0..1 :
          prx = [pc |-> "on",
                 proxy |-> [wrapped_segment |-> [version |-> 1,
                                                 persisted_version |-> persisted_version],
                            write_segment |-> [version |-> 0, persisted_version |-> 0],
                            deleted_points |-> {},
                            deleted_indexes |-> {},
                            created_indexes |-> {},
                            last_flushed_version |-> -1],
                 op_num |-> 2,
                 call |-> NoFlushCall]

ProxyFlushOthers == <<holder, ref, op_seq, last_call, opt, flush_ret, reported, wal_acked, seen,
                      scn, ord, mig, dedup, uh, merge, est, drp, alo>>

\* a point operation through the proxy: a new point is written to the write
\* segment, or a point of the wrapped segment is moved there first
PrxPointOperation ==
    /\ prx.pc = "on"
    /\ prx.op_num <= MaxOp + 1
    /\ \E moved \in SUBSET PointIds :
          prx' = [prx EXCEPT !.proxy.deleted_points = @ \cup moved,
                             !.proxy.write_segment.version = prx.op_num,
                             !.op_num = @ + 1,
                             !.call = NoFlushCall]
    /\ UNCHANGED ProxyFlushOthers

\* ProxySegment::create_field_index
PrxCreateFieldIndex ==
    /\ prx.pc = "on"
    /\ prx.op_num <= MaxOp + 1
    /\ \E key \in IndexKeys :
          prx' = [prx EXCEPT !.proxy.created_indexes = @ \cup {key},
                             !.proxy.deleted_indexes = @ \ {key},
                             !.proxy.write_segment.version = prx.op_num,
                             !.op_num = @ + 1,
                             !.call = NoFlushCall]
    /\ UNCHANGED ProxyFlushOthers

\* ProxySegment::delete_field_index
PrxDeleteFieldIndex ==
    /\ prx.pc = "on"
    /\ prx.op_num <= MaxOp + 1
    /\ \E key \in IndexKeys :
          prx' = [prx EXCEPT !.proxy.deleted_indexes = @ \cup {key},
                             !.proxy.created_indexes = @ \ {key},
                             !.proxy.write_segment.version = prx.op_num,
                             !.op_num = @ + 1,
                             !.call = NoFlushCall]
    /\ UNCHANGED ProxyFlushOthers

\* flush(sync) of the proxy
PrxFlush ==
    /\ prx.pc = "on"
    /\ prx.call.flushes < 2
    /\ \E res \in {flush(prx.proxy)} :
          prx' = [prx EXCEPT !.proxy = res.proxy,
                             !.call = [ret |-> res.ret, before |-> <<prx.proxy>>,
                                       flushes |-> prx.call.flushes + 1]]
    /\ UNCHANGED ProxyFlushOthers

NextProxyFlush ==
    \/ PrxPointOperation
    \/ PrxCreateFieldIndex
    \/ PrxDeleteFieldIndex
    \/ PrxFlush

SpecProxyFlush == InitProxyFlush /\ [][NextProxyFlush]_vars

\* ------------------------------------------------------- aloha_random_write
\* Two update threads run apply_points_to_appendable for one point each and a
\* reader runs read_points, over three segments with their own read-write
\* locks. A lock is [writer, upgradable, readers]; 0 is no thread.
AlohaSegments == 1..3
AlohaWriters == {1, 2}
AlohaReaders == {3}
AlohaThreads == AlohaWriters \cup AlohaReaders
MaxBackoff == 2

FreeLock == [writer |-> 0, upgradable |-> 0, readers |-> {}]

\* try_write succeeds on a lock nobody holds in any mode
CanWrite(lock) == lock.writer = 0 /\ lock.upgradable = 0 /\ lock.readers = {}

CanRead(lock) == lock.writer = 0

CanUpgradableRead(lock) == lock.writer = 0 /\ lock.upgradable = 0

AlohaWriter(point_segment) ==
    [pc |-> "iterate", segment |-> 1, point_segment |-> point_segment,
     candidates |-> <<>>, tried |-> 0, phase |-> "none", backoff |-> 0,
     target |-> 0, applied |-> 0, applied_on |-> 0, applied_locked |-> TRUE,
     found_free |-> FALSE, result |-> "none"]

AlohaReader ==
    [pc |-> "iterate", segment |-> 1, point_segment |-> 0,
     candidates |-> <<>>, tried |-> 0, phase |-> "none", backoff |-> 0,
     target |-> 0, applied |-> 0, applied_on |-> 0, applied_locked |-> TRUE,
     found_free |-> FALSE, result |-> "none"]

InitAloha ==
    /\ MainIdle
    /\ scn = NoScenario
    /\ ord = NoOrder
    /\ mig = NoMigration
    /\ dedup = NoDedup
    /\ uh = NoHandler
    /\ merge = NoMerge
    /\ est = NoEstimate
    /\ drp = NoDrop
    /\ prx = NoProxyFlush
    /\ \E appendable \in SUBSET AlohaSegments, points \in [AlohaWriters -> AlohaSegments] :
          alo = [pc |-> "on",
                 appendable |-> appendable,
                 locks |-> [sid \in AlohaSegments |-> FreeLock],
                 threads |-> [t \in AlohaThreads |->
                                 IF t \in AlohaWriters THEN AlohaWriter(points[t])
                                 ELSE AlohaReader]]

AlohaOthers == <<holder, ref, op_seq, last_call, opt, flush_ret, reported, wal_acked, seen,
                 scn, ord, mig, dedup, uh, merge, est, drp, prx>>

\* apply_points: segment.upgradable_read() on the next segment, or the end
\* of the loop
TakeUpgradableRead(t) ==
    /\ alo.threads[t].pc = "iterate"
    /\ LET sid == alo.threads[t].segment
       IN IF sid \notin AlohaSegments
          THEN alo' = [alo EXCEPT !.threads[t].pc = "done", !.threads[t].result = "Ok"]
          ELSE /\ CanUpgradableRead(alo.locks[sid])
               /\ alo' = [alo EXCEPT !.locks[sid].upgradable = t,
                                     !.threads[t].pc = "inspect"]
    /\ UNCHANGED AlohaOthers

\* segment_points: a segment without the point is left, the lock of the
\* segment that has it is upgraded once its readers are gone
InspectOrUpgrade(t) ==
    /\ alo.threads[t].pc = "inspect"
    /\ LET sid == alo.threads[t].segment
       IN IF alo.threads[t].point_segment # sid
          THEN alo' = [alo EXCEPT !.locks[sid].upgradable = 0,
                                  !.threads[t].segment = @ + 1,
                                  !.threads[t].pc = "iterate"]
          ELSE /\ alo.locks[sid].readers = {}
               /\ alo' = [alo EXCEPT !.locks[sid].upgradable = 0,
                                     !.locks[sid].writer = t,
                                     !.threads[t].pc = "write"]
    /\ UNCHANGED AlohaOthers

\* the closure of apply_points_to_appendable under the write lock: f on an
\* appendable segment; otherwise aloha_random_write is entered, which fails
\* at once on an empty candidate list
ApplyOrEnterAloha(t) ==
    /\ alo.threads[t].pc = "write"
    /\ LET sid == alo.threads[t].segment
       IN IF sid \in alo.appendable
          THEN alo' = [alo EXCEPT !.locks[sid].writer = 0,
                                  !.threads[t].segment = @ + 1,
                                  !.threads[t].pc = "iterate"]
          ELSE IF alo.appendable = {}
          THEN alo' = [alo EXCEPT !.locks[sid].writer = 0,
                                  !.threads[t].phase = "failed",
                                  !.threads[t].result = "ServiceError",
                                  !.threads[t].pc = "done"]
          ELSE alo' = [alo EXCEPT !.threads[t].candidates = SortedSeq(alo.appendable),
                                  !.threads[t].tried = 0,
                                  !.threads[t].phase = "fast",
                                  !.threads[t].found_free =
                                      \E c \in alo.appendable : CanWrite(alo.locks[c]),
                                  !.threads[t].pc = "aloha"]
    /\ UNCHANGED AlohaOthers

\* a first loop that gives up without trying any candidate
FastTrySkipped(t) ==
    /\ alo.threads[t].pc = "aloha"
    /\ alo.threads[t].phase = "fast"
    /\ alo' = [alo EXCEPT !.threads[t].phase = "slow"]
    /\ UNCHANGED AlohaOthers

\* first loop: try_write on the next candidate
FastTryWrite(t) ==
    /\ alo.threads[t].pc = "aloha"
    /\ alo.threads[t].phase = "fast"
    /\ LET next == alo.threads[t].tried + 1
       IN IF next > Len(alo.threads[t].candidates)
          THEN alo' = [alo EXCEPT !.threads[t].phase = "slow"]
          ELSE IF CanWrite(alo.locks[alo.threads[t].candidates[next]])
          THEN alo' = [alo EXCEPT !.locks[alo.threads[t].candidates[next]].writer = t,
                                  !.threads[t].target = alo.threads[t].candidates[next],
                                  !.threads[t].pc = "locked"]
          ELSE alo' = [alo EXCEPT !.threads[t].tried = next]
    /\ UNCHANGED AlohaOthers

\* second loop: try_write_for(timeout) on a candidate chosen at random; the
\* timeout doubles after a failure (counted up to MaxBackoff doublings)
SlowTryWrite(t) ==
    /\ alo.threads[t].pc = "aloha"
    /\ alo.threads[t].phase = "slow"
    /\ \E i \in 1..Len(alo.threads[t].candidates) :
          IF CanWrite(alo.locks[alo.threads[t].candidates[i]])
          THEN alo' = [alo EXCEPT !.locks[alo.threads[t].candidates[i]].writer = t,
                                  !.threads[t].target = alo.threads[t].candidates[i],
                                  !.threads[t].pc = "locked"]
          ELSE alo' = [alo EXCEPT !.threads[t].backoff = Min(@ + 1, MaxBackoff)]
    /\ UNCHANGED AlohaOthers

\* apply under the write lock of the target: the point is moved there; both
\* write locks are released and apply_points goes on to the next segment
ApplyOnTarget(t) ==
    /\ alo.threads[t].pc = "locked"
    /\ LET sid == alo.threads[t].segment
           target == alo.threads[t].target
       IN alo' = [alo EXCEPT !.locks[target].writer = 0,
                             !.locks[sid].writer = 0,
                             !.threads[t].applied = @ + 1,
                             !.threads[t].applied_on = target,
                             !.threads[t].applied_locked = alo.locks[target].writer = t,
                             !.threads[t].point_segment = target,
                             !.threads[t].phase = "applied",
                             !.threads[t].segment = @ + 1,
                             !.threads[t].pc = "iterate"]
    /\ UNCHANGED AlohaOthers

\* read_points: segment.read() on the next segment, or the end of the loop
TakeRead(t) ==
    /\ alo.threads[t].pc = "iterate"
    /\ LET sid == alo.threads[t].segment
       IN IF sid \notin AlohaSegments
          THEN alo' = [alo EXCEPT !.threads[t].pc = "done", !.threads[t].result = "Ok"]
          ELSE /\ CanRead(alo.locks[sid])
               /\ alo' = [alo EXCEPT !.locks[sid].readers = @ \cup {t},
                                     !.threads[t].pc = "reading"]
    /\ UNCHANGED AlohaOthers

\* a reader that goes on to the next segment without releasing the lock of
\* the one it has read
KeepRead(t) ==
    /\ alo.threads[t].pc = "reading"
    /\ alo' = [alo EXCEPT !.threads[t].segment = @ + 1,
                          !.threads[t].pc = "iterate"]
    /\ UNCHANGED AlohaOthers

ReleaseRead(t) ==
    /\ alo.threads[t].pc = "reading"
    /\ alo' = [alo EXCEPT !.locks[alo.threads[t].segment].readers = @ \ {t},
                          !.threads[t].segment = @ + 1,
                          !.threads[t].pc = "iterate"]
    /\ UNCHANGED AlohaOthers

\* a thread that cannot take its next step in the current state: the lock
\* it asks for is held by another thread (try_write of the first loop never
\* waits)
Waiting(t) ==
    LET thread == alo.threads[t]
    IN CASE thread.pc = "iterate" /\ thread.segment \in AlohaSegments ->
                IF t \in AlohaWriters
                THEN ~CanUpgradableRead(alo.locks[thread.segment])
                ELSE ~CanRead(alo.locks[thread.segment])
         [] thread.pc = "inspect" /\ thread.point_segment = thread.segment ->
                alo.locks[thread.segment].readers # {}
         [] thread.pc = "aloha" /\ thread.phase = "slow" ->
                \A i \in 1..Len(thread.candidates) :
                    ~CanWrite(alo.locks[thread.candidates[i]])
         [] OTHER -> FALSE

Unfinished == {t \in AlohaThreads : alo.threads[t].pc # "done"}

NextAloha ==
    \/ \E t \in AlohaWriters : TakeUpgradableRead(t)
    \/ \E t \in AlohaWriters : InspectOrUpgrade(t)
    \/ \E t \in AlohaWriters : ApplyOrEnterAloha(t)
    \/ \E t \in AlohaWriters : FastTryWrite(t)
    \/ \E t \in AlohaWriters : SlowTryWrite(t)
    \/ \E t \in AlohaWriters : ApplyOnTarget(t)
    \/ \E t \in AlohaReaders : TakeRead(t)
    \/ \E t \in AlohaReaders : ReleaseRead(t)

SpecAloha == InitAloha /\ [][NextAloha]_vars

\* ------------------------------------------------- optimizer worker: recovery
\* The optimizer worker with the WAL and failed_operation spelled out.  The
\* WAL holds the operations 1..wal; the update worker appends one, applies it
\* and signals the optimizer worker when it succeeded.
MaxWal == 3

NoTurn == [signal |-> "none", skipped |-> FALSE, failed_before |-> {}, failed_after |-> {},
           handles_before |-> 0, wal |-> 0, replayed |-> <<>>, err |-> FALSE,
           launched |-> FALSE]

\* wal.read(first): the operations from first on, in WAL order, each given to
\* CollectionUpdater::update, which records the op_num of a failure and clears
\* the op_num of a success; `?` ends the replay at the first error
RECURSIVE replay(_, _, _, _)
replay(acc, op_num, wal, fails) ==
    IF op_num > wal THEN acc
    ELSE IF op_num \in fails
    THEN [acc EXCEPT !.failed_operation = @ \cup {op_num},
                     !.replayed = Append(@, op_num),
                     !.err = TRUE]
    ELSE replay([acc EXCEPT !.failed_operation = @ \ {op_num},
                            !.replayed = Append(@, op_num)],
                op_num + 1, wal, fails)

\* a recovery that starts at the last failed operation
try_recover_from_last(failed_operation, wal, fails) ==
    IF failed_operation = {}
    THEN [failed_operation |-> failed_operation, replayed |-> <<>>, err |-> FALSE]
    ELSE replay([failed_operation |-> failed_operation, replayed |-> <<>>, err |-> FALSE],
                CHOOSE o \in failed_operation : \A p \in failed_operation : p <= o,
                wal, fails)

try_recover(failed_operation, wal, fails) ==
    IF failed_operation = {}
    THEN [failed_operation |-> failed_operation, replayed |-> <<>>, err |-> FALSE]
    ELSE replay([failed_operation |-> failed_operation, replayed |-> <<>>, err |-> FALSE],
                SetMin(failed_operation), wal, fails)

InitRecover ==
    /\ MainIdle
    /\ scn = NoScenario
    /\ ord = NoOrder
    /\ mig = NoMigration
    /\ dedup = NoDedup
    /\ merge = NoMerge
    /\ est = NoEstimate
    /\ drp = NoDrop
    /\ prx = NoProxyFlush
    /\ alo = NoAloha
    /\ uh = [pc |-> "recover", wal |-> 0, failed_operation |-> {},
             optimizer_channel |-> <<>>, handles |-> 0, finished |-> 0,
             optimizer_worker |-> "running", turn |-> NoTurn]

\* update worker: an Operation is written to the WAL and applied; a failure
\* is recorded on the holder, a success is signalled to the optimizer worker
RecoverUpdate ==
    /\ uh.pc = "recover"
    /\ uh.wal < MaxWal
    /\ \E ok \in BOOLEAN :
          IF ok
          THEN /\ Len(uh.optimizer_channel) < update_queue_size
               /\ uh' = [uh EXCEPT !.wal = @ + 1,
                                   !.failed_operation = @ \ {uh.wal + 1},
                                   !.optimizer_channel = Append(@, "Operation")]
          ELSE uh' = [uh EXCEPT !.wal = @ + 1,
                                !.failed_operation = @ \cup {uh.wal + 1}]
    /\ UNCHANGED <<holder, HandlerOthers>>

\* Nop (forwarded by the update worker or sent by a finished task) and Stop
RecoverSignal ==
    /\ uh.pc = "recover"
    /\ Len(uh.optimizer_channel) < update_queue_size
    /\ \E signal \in {"Nop", "Stop"} :
          uh' = [uh EXCEPT !.optimizer_channel = Append(@, signal)]
    /\ UNCHANGED <<holder, HandlerOthers>>

RecoverTaskFinishes ==
    /\ uh.pc = "recover"
    /\ uh.finished < uh.handles
    /\ uh' = [uh EXCEPT !.finished = @ + 1]
    /\ UNCHANGED <<holder, HandlerOthers>>

\* one turn of the loop of optimization_worker_fn
RecoverOptimizerTurn ==
    /\ uh.pc = "recover"
    /\ uh.optimizer_worker = "running"
    /\ uh.optimizer_channel # <<>>
    /\ \E signal \in {Head(uh.optimizer_channel)} :
       \E before \in {[NoTurn EXCEPT !.signal = signal,
                                     !.failed_before = uh.failed_operation,
                                     !.failed_after = uh.failed_operation,
                                     !.handles_before = uh.handles,
                                     !.wal = uh.wal]} :
          IF signal = "Stop"
          THEN uh' = [uh EXCEPT !.optimizer_channel = Tail(@),
                                !.optimizer_worker = "stopped",
                                !.turn = before]
          ELSE IF signal # "Nop" /\ uh.handles >= max_optimization_threads
          THEN uh' = [uh EXCEPT !.optimizer_channel = Tail(@),
                                !.handles = @ - uh.finished,
                                !.finished = 0,
                                !.turn = [before EXCEPT !.skipped = TRUE]]
          ELSE \E fails \in SUBSET (1..uh.wal) :
               \E rec \in {try_recover(uh.failed_operation, uh.wal, fails)} :
                  IF rec.err
                  THEN uh' = [uh EXCEPT !.optimizer_channel = Tail(@),
                                        !.failed_operation = rec.failed_operation,
                                        !.turn = [before EXCEPT !.replayed = rec.replayed,
                                                                !.failed_after =
                                                                    rec.failed_operation,
                                                                !.err = TRUE]]
                  ELSE \E new \in 0..(IF uh.handles < MaxTasks THEN 1 ELSE 0) :
                       uh' = [uh EXCEPT !.optimizer_channel = Tail(@),
                                        !.failed_operation = rec.failed_operation,
                                        !.handles = (@ + new) - uh.finished,
                                        !.finished = 0,
                                        !.turn = [before EXCEPT !.replayed = rec.replayed,
                                                                !.failed_after =
                                                                    rec.failed_operation,
                                                                !.launched = TRUE]]
    /\ UNCHANGED <<holder, HandlerOthers>>

NextRecover ==
    \/ RecoverUpdate
    \/ RecoverSignal
    \/ RecoverTaskFinishes
    \/ RecoverOptimizerTurn

SpecRecover == InitRecover /\ [][NextRecover]_vars

\* ------------------------------------------------------------ proxy counts
\* Segment::available_point_count and the num_vectors of Segment::info (one
\* vector name is configured)
SegPointCount(s) == Cardinality({p \in DOMAIN s.points : s.points[p].present})

SegVectorCount(s) ==
    Cardinality({p \in DOMAIN s.points : s.points[p].present /\ s.points[p].vector # NoVector})

vector_name_count == 1

saturating_sub(a, b) == IF a >= b THEN a - b ELSE 0

\* ProxySegment::available_point_count
available_point_count(H, sid) ==
    saturating_sub(SegPointCount(H.store[sid]) + SegPointCount(H.store[TmpId]),
                   Cardinality(H.deleted_points))

\* ProxySegment::info: num_vectors and num_points
info(H, sid) ==
    [num_vectors |->
         saturating_sub(SegVectorCount(H.store[sid]) + SegVectorCount(H.store[TmpId]),
                        Cardinality(H.deleted_points) * vector_name_count),
     num_points |-> available_point_count(H, sid)]

\* --------------------------------------------------- launch_optimization
\* The optimizer worker with the merge optimizer over a holder of plain
\* segments of size 1; a spawned task proxies its victims when it gets the
\* holder write lock, builds, and swaps.
LaunchSegments == {3, 6}

NoLaunch == [scheduled |-> {}, tasks |-> <<>>]

\* the loop of launch_optimization for the one optimizer: check_condition
\* with the ids scheduled so far, one task per non-empty answer
\* (launch_without_exclusion: check_condition is given no scheduled ids and
\* is asked once more after an answer)
RECURSIVE launch_optimization(_, _, _, _)
launch_optimization(segments, max_segments, limit, acc) ==
    LET nonoptimal_segment_ids == check_condition(segments, acc.scheduled, max_segments, limit)
    IN IF nonoptimal_segment_ids = <<>> THEN acc
       ELSE launch_optimization(segments, max_segments, limit,
                [scheduled |-> acc.scheduled \cup SeqRange(nonoptimal_segment_ids),
                 tasks |-> Append(acc.tasks, [state |-> "spawned",
                                              victims |-> SeqRange(nonoptimal_segment_ids)])])

InitLaunch ==
    /\ MainIdle
    /\ scn = NoScenario
    /\ ord = NoOrder
    /\ mig = NoMigration
    /\ dedup = NoDedup
    /\ merge = NoMerge
    /\ est = NoEstimate
    /\ drp = NoDrop
    /\ prx = NoProxyFlush
    /\ alo = NoAloha
    /\ \E n \in LaunchSegments, max_segments \in SegmentLimits, limit \in SizeLimits :
          uh = [pc |-> "launch",
                segments |-> [sid \in 1..n |-> MergeSegment(FALSE, 1)],
                next_id |-> n + 1,
                max_segments |-> max_segments,
                limit |-> limit,
                sent |-> 0,
                optimizer_channel |-> <<>>,
                tasks |-> <<>>,
                handles |-> {},
                launches |-> 0,
                last_launched |-> {}]

\* the update worker forwards an Operation or a Nop
LaunchSignal ==
    /\ uh.pc = "launch"
    /\ uh.sent < MaxSignals
    /\ Len(uh.optimizer_channel) < update_queue_size
    /\ \E signal \in {"Operation", "Nop"} :
          uh' = [uh EXCEPT !.sent = @ + 1,
                           !.optimizer_channel = Append(@, signal)]
    /\ UNCHANGED <<holder, HandlerOthers>>

\* handles.retain(|h| !h.is_finished())
retain_running(tasks, handles) == {h \in handles : tasks[h].state # "finished"}

\* one turn of optimization_worker_fn; nothing has failed, try_recover is Ok
LaunchTurn ==
    /\ uh.pc = "launch"
    /\ uh.optimizer_channel # <<>>
    /\ IF /\ Head(uh.optimizer_channel) # "Nop"
          /\ Cardinality(uh.handles) >= max_optimization_threads
       THEN uh' = [uh EXCEPT !.optimizer_channel = Tail(@),
                             !.handles = retain_running(uh.tasks, @),
                             !.last_launched = {}]
       ELSE \E launched \in {launch_optimization(uh.segments, uh.max_segments,
                                                 uh.limit, NoLaunch)} :
               uh' = [uh EXCEPT
                         !.optimizer_channel = Tail(@),
                         !.tasks = @ \o launched.tasks,
                         !.handles = retain_running(uh.tasks \o launched.tasks,
                                         @ \cup (Len(uh.tasks) + 1
                                                   ..Len(uh.tasks) + Len(launched.tasks))),
                         !.launches = @ + 1,
                         !.last_launched = Len(uh.tasks) + 1
                                             ..Len(uh.tasks) + Len(launched.tasks)]
    /\ UNCHANGED <<holder, HandlerOthers>>

\* optimize, step 1: under the holder write lock the victims are replaced by
\* proxies; a task that finds a victim gone or proxied ends
TaskProxies ==
    /\ uh.pc = "launch"
    /\ \E task \in 1..Len(uh.tasks) :
          /\ uh.tasks[task].state = "spawned"
          /\ IF \A sid \in uh.tasks[task].victims :
                    sid \in DOMAIN uh.segments /\ uh.segments[sid].kind = "Original"
             THEN uh' = [uh EXCEPT
                            !.tasks[task].state = "proxied",
                            !.segments = [sid \in DOMAIN uh.segments |->
                                             IF sid \in uh.tasks[task].victims
                                             THEN [uh.segments[sid] EXCEPT !.kind = "Proxy"]
                                             ELSE uh.segments[sid]]]
             ELSE uh' = [uh EXCEPT !.tasks[task].state = "finished"]
    /\ UNCHANGED <<holder, HandlerOthers>>

\* optimize, step 3: the victims are swapped for the new segment and the
\* write segment; the callback tries to send Nop
TaskSwaps ==
    /\ uh.pc = "launch"
    /\ \E task \in 1..Len(uh.tasks) :
          /\ uh.tasks[task].state = "proxied"
          /\ \E victims \in {uh.tasks[task].victims} :
                uh' = [uh EXCEPT
                          !.tasks[task].state = "finished",
                          !.segments =
                              [sid \in (DOMAIN uh.segments \ victims)
                                          \cup {uh.next_id, uh.next_id + 1} |->
                                  IF sid = uh.next_id
                                  THEN MergeSegment(FALSE, SizeSum(victims, uh.segments))
                                  ELSE IF sid = uh.next_id + 1
                                  THEN MergeSegment(FALSE, 0)
                                  ELSE uh.segments[sid]],
                          !.next_id = @ + 2,
                          !.optimizer_channel =
                              IF Len(@) < update_queue_size THEN Append(@, "Nop") ELSE @]
    /\ UNCHANGED <<holder, HandlerOthers>>

NextLaunch ==
    \/ LaunchSignal
    \/ LaunchTurn
    \/ TaskProxies
    \/ TaskSwaps

SpecLaunch == InitLaunch /\ [][NextLaunch]_vars

\* ================================================================ claims
Proxies(H) == {sid \in SegIds : H.segments[sid] = "Proxy"}
ReadFilters == {NoFilter, MustFilter(FieldCondition("k")), MustNotFilter(FieldCondition("k"))}
ReadTops == 1..2
ReadFroms == 1..2
ReadTos == 2..3

\* C1: whatever was written through a proxy, search, read_filtered and
\* read_range of that proxy return every point id at most once, and an id of
\* deleted_points is returned only when the write segment holds the point.
C1_ProxyReadsOnce ==
    \A sid \in Proxies(holder) :
        /\ \A filter \in ReadFilters, top \in ReadTops :
              LET res == ProxySearch(holder, sid, filter, top)
              IN /\ NoDuplicates(res)
                 /\ \A id \in SeqRange(res) \cap holder.deleted_points :
                        SegHasPoint(holder.store[TmpId], id)
        /\ \A filter \in ReadFilters, offset \in ReadFroms, limit \in ReadTops :
              LET res == ProxyReadFiltered(holder, sid, offset, limit, filter)
              IN /\ NoDuplicates(res)
                 /\ \A id \in SeqRange(res) \cap holder.deleted_points :
                        SegHasPoint(holder.store[TmpId], id)
        /\ \A from \in ReadFroms, to \in ReadTos :
              LET res == ProxyReadRange(holder, sid, from, to)
              IN /\ NoDuplicates(res)
                 /\ \A id \in SeqRange(res) \cap holder.deleted_points :
                        SegHasPoint(holder.store[TmpId], id)

\* a proxy whose wrapped segment still stores a point that was moved to the
\* write segment, and whose search returns that point
C1_Witness ==
    \E sid \in Proxies(holder), id \in PointIds :
        /\ id \in holder.deleted_points
        /\ SegHasPoint(holder.store[sid], id)
        /\ SegHasPoint(holder.store[TmpId], id)
        /\ id \in SeqRange(ProxySearch(holder, sid, NoFilter, 2))

\* What a reader of the holder gets for a point id: the (vector, payload)
\* pairs of the segments that report the point.
Readable(H, id) ==
    {[vector |-> EntryPoint(H, sid, id).vector, payload |-> EntryPoint(H, sid, id).payload] :
        sid \in Owners(H, id)}

C3_FlushAllDurable ==
    flush_ret # -1 =>
        \A sid \in SegIds : \A o \in holder.store[sid].unsaved : o > flush_ret

\* Segments whose version was above the persisted version they reported to
\* the flush that just returned.
Lagging == {sid \in Live(holder) : EntryVersion(holder, sid) > reported[sid]}

\* C4 as stated: the acknowledged version is at most the persisted version
\* reported by every segment of the holder, and at most the smallest
\* failed op_num.
C4_AckBelowEveryReport ==
    wal_acked # -1 =>
        /\ \A sid \in Live(holder) : reported[sid] >= wal_acked
        /\ \A o \in holder.failed_operation : wal_acked <= o

\* C4 amended: the acknowledged version is min(failed_operation + {flush_all});
\* it is at most the persisted version reported by every segment whose
\* version is above what it reported, at most every failed op_num, and with
\* no such segment and no failed operation it is the largest reported
\* persisted version.
C4_AckBelowLaggingReports ==
    wal_acked # -1 =>
        /\ wal_acked = SetMin(holder.failed_operation \cup {flush_ret})
        /\ \A sid \in Lagging : wal_acked <= reported[sid]
        /\ \A o \in holder.failed_operation : wal_acked <= o
        /\ (Lagging = {} /\ holder.failed_operation = {}) =>
               /\ \A sid \in Live(holder) : reported[sid] <= wal_acked
               /\ \E sid \in Live(holder) : reported[sid] = wal_acked

\* an acknowledgement held back by a failed operation while the segments
\* had persisted more
C4_Witness ==
    /\ wal_acked # -1
    /\ holder.failed_operation # {}
    /\ wal_acked < flush_ret

\* C5: the segment set a search iterates over is either the set from before
\* the swap (every replaced segment, not the new one) or the set from after
\* it (the new segment, none of the replaced ones).
C5_SearchSeesOldOrNew ==
    seen # {} =>
        IF OptId \in seen THEN seen \cap opt.victims = {}
        ELSE opt.victims \subseteq seen

\* a search that ran after the swap and went over the new segment
C5_Witness ==
    /\ opt.pc = "done"
    /\ OptId \in seen
    /\ seen \cap opt.victims = {}

\* C6: with the wrapped points {1, 2, 3}, once delete_point(10, 2) and
\* upsert_point(11, 4) have both returned, in whichever order they took the
\* proxy, an unfiltered search returns exactly the ids 1, 3 and 4, each once.
C6_DeleteAndUpsertThroughProxy ==
    (scn.pc_delete = "done" /\ scn.pc_upsert = "done") =>
        LET res == ProxySearch(scn.h, S2, NoFilter, 10)
        IN SeqRange(res) = {1, 3, 4} /\ NoDuplicates(res)

\* both writers are done and a search that ran afterwards returned 1, 3, 4
C6_Witness ==
    /\ scn.pc_delete = "done"
    /\ scn.pc_upsert = "done"
    /\ SeqRange(scn.result) = {1, 3, 4}

\* The holder is left as it is by the operation, whatever the iteration
\* order and the segment picked for a migration.
LeavesHolder(opr) ==
    \A order \in Orders, target \in Targets(holder) :
        update(holder, opr, order, target).h = holder

OwnedVersions(id) == {EntryPointVersion(holder, sid, id) : sid \in Owners(holder, id)}

\* C7: re-applying the last operation with its op_num leaves the holder as
\* it is, and so does any operation whose op_num is below the version of the
\* point it addresses (op_nums are unique, so an operation that is not above
\* the point version is the one that set it or an older one).
C7_ReapplyIsNoOp ==
    ~HolderWriteLocked =>
        /\ last_call.opr.kind # "none" => LeavesHolder(last_call.opr)
        /\ \A shape \in OpShapes, id \in PointIds, n \in 1..MaxOp :
              (OwnedVersions(id) # {} /\ \A v \in OwnedVersions(id) : n < v) =>
                  LeavesHolder(Operation(shape.kind, n, {id}, shape.vector, shape.payload))

\* C8 as stated: when both copies have taken both operations, they hold the
\* same points with the same versions.
C8_EitherOrderSameState ==
    (ord.pc_a = 2 /\ ord.pc_b = 2) =>
        (ord.a.points = ord.b.points /\ ord.a.version = ord.b.version)

\* C8 amended: op1 applied after op2 changes nothing when the point exists
\* after op2, so the order (op2, op1) ends in the state op2 alone produced;
\* the two orders end in the same state when both operations are upserts.
C8_LateOperationIsDropped ==
    /\ (ord.pc_b = 2 /\ SegHasPoint(ord.b_mid, 1)) =>
           (ord.b.points = ord.b_mid.points /\ ord.b.version = ord.b_mid.version)
    /\ (/\ ord.pc_a = 2
        /\ ord.pc_b = 2
        /\ ord.op1.kind = "upsert"
        /\ ord.op2.kind = "upsert") =>
           (ord.a.points = ord.b.points /\ ord.a.version = ord.b.version)

\* two upserts with different vectors were applied in both orders, the
\* older one was dropped by copy b, and the copies agree
C8_Witness ==
    /\ ord.pc_a = 2
    /\ ord.pc_b = 2
    /\ ord.op1.kind = "upsert"
    /\ ord.op2.kind = "upsert"
    /\ ord.op1.vector # ord.op2.vector
    /\ ord.b.points = ord.b_mid.points
    /\ ord.a.points = ord.b.points

AppendableOriginals(H) ==
    {sid \in appendable_segments(H) : H.segments[sid] = "Original"}

\* C9 as stated: no point id is reported by more than one appendable segment
\* of the holder.
C9_OneAppendableOwner ==
    ~HolderWriteLocked =>
        \A id \in PointIds :
            Cardinality({sid \in appendable_segments(holder) :
                            EntryHasPoint(holder, sid, id)}) <= 1

\* C9 amended: no point id is reported by more than one appendable segment
\* when the proxies of the running optimization count as one segment; two
\* proxies report the same id only when their shared write segment holds it.
C9_OneAppendableOwnerUpToProxies ==
    ~HolderWriteLocked =>
        \A id \in PointIds :
            LET originals == {sid \in AppendableOriginals(holder) :
                                 EntryHasPoint(holder, sid, id)}
                proxies == {sid \in Proxies(holder) : EntryHasPoint(holder, sid, id)}
            IN /\ Cardinality(originals) + (IF proxies = {} THEN 0 ELSE 1) <= 1
               /\ Cardinality(proxies) > 1 => SegHasPoint(holder.store[TmpId], id)

\* a point that a write moved into the write segment shared by two proxies
C9_Witness ==
    /\ ~HolderWriteLocked
    /\ \E id \in PointIds :
          /\ Cardinality({sid \in Proxies(holder) : EntryHasPoint(holder, sid, id)}) = 2
          /\ SegHasPoint(holder.store[TmpId], id)

NonDeleteShapes == {shape \in OpShapes : shape.kind # "delete"}

\* C10 as stated: when apply_points_to_appendable returns without an error,
\* f ran exactly once for every id it was given.
C10_OnceForEveryId ==
    ~HolderWriteLocked =>
        \A shape \in NonDeleteShapes, ids \in IdSets, n \in {op_seq, op_seq + 1},
           order \in Orders, target \in Targets(holder) :
            LET res == apply_points_to_appendable(holder,
                           Operation(shape.kind, n, ids, shape.vector, shape.payload),
                           order, target)
            IN res.err = "Ok" => \A id \in ids : res.calls[id] = 1

\* C10 amended: when apply_points_to_appendable returns without an error, f
\* ran exactly once for every id that a segment holds with a version below
\* op_num, and did not run for an id that no segment holds or that every
\* holding segment has at op_num or above.
C10_OnceForEveryOwnedId ==
    ~HolderWriteLocked =>
        \A shape \in NonDeleteShapes, ids \in IdSets, n \in {op_seq, op_seq + 1},
           order \in Orders, target \in Targets(holder) :
            LET res == apply_points_to_appendable(holder,
                           Operation(shape.kind, n, ids, shape.vector, shape.payload),
                           order, target)
            IN res.err = "Ok" =>
                  \A id \in ids :
                      res.calls[id] =
                          IF \E v \in OwnedVersions(id) : v < n THEN 1 ELSE 0

\* the last operation ran f once for a point it moved out of a
\* non-appendable segment and not at all for an id nobody holds
C10_Witness ==
    /\ last_call.opr.kind \in {"update_vectors", "delete_vector", "set_payload"}
    /\ last_call.opr.ids = PointIds
    /\ last_call.err = "Ok"
    /\ \E id \in PointIds : last_call.calls[id] = 1
    /\ \E id \in PointIds : last_call.calls[id] = 0

\* What f leaves of a point pt when it runs as operation opr with op_num n.
EffectOn(pt, opr, n) ==
    [present |-> TRUE,
     version |-> n,
     vector |-> CASE opr.kind \in {"upsert", "update_vectors"} -> opr.vector
                  [] opr.kind = "delete_vector" -> NoVector
                  [] OTHER -> pt.vector,
     payload |-> IF opr.kind = "set_payload" THEN pt.payload \cup opr.payload
                 ELSE pt.payload]

C12_MigrationIsAtomic ==
    /\ mig.pc = "returned" =>
          /\ EntryHasPoint(holder, S2, 1) # EntryHasPoint(holder, S1, 1)
          /\ EntryHasPoint(holder, S1, 1) =>
                 mig.before.payload \subseteq EntryPoint(holder, S1, 1).payload
    /\ (mig.pc # "off" /\ mig.to_read = <<>>) => Cardinality(mig.read_in) = 1

\* the versions a point id has in the plain segments of H
CopiesOf(H, id) == {sid \in DedupSegments : SegHasPoint(H.store[sid], id)}

\* C13: after deduplicate_points on plain segments every point id that was in
\* one or more segments is in exactly one, the copy that is left has the
\* largest version the copies had before the call, and the number returned is
\* the number of copies removed.
C13_DedupKeepsNewest ==
    dedup.pc = "done" =>
        /\ \A id \in PointIds :
              CopiesOf(ref, id) # {} =>
                 /\ Cardinality(CopiesOf(holder, id)) = 1
                 /\ \A kept \in CopiesOf(holder, id), sid \in CopiesOf(ref, id) :
                       holder.store[kept].points[id].version >=
                           ref.store[sid].points[id].version
        /\ dedup.removed_points =
               Cardinality({<<sid, id>> \in DedupSegments \X PointIds :
                               sid \in CopiesOf(ref, id) /\ sid \notin CopiesOf(holder, id)})

\* ------------------------------------------------------------ update worker
Sent(u) == 1..Len(u.log)
Operations(u) == {i \in Sent(u) : u.log[i].type = "Operation"}
\* signal i has left the loop body of update_worker_fn: taken, and its send
\* to the optimizer worker, if it has one, is over
Processed(u, i) ==
    /\ u.sig[i].taken
    /\ ~(u.update_worker = "forwarding" /\ u.forward_for = i)

\* C14: the update worker takes the signals in the order they were sent and
\* takes none while the send of an earlier one is pending, so the op_nums
\* given to the updater ascend; a Plunger is replied to only when every
\* Operation sent before it has been processed: given to the updater, or
\* refused because its WAL flush failed.
C14_SignalsInOrder ==
    /\ \A i, j \in 1..Len(uh.applied) : i < j => uh.applied[i] < uh.applied[j]
    /\ \A i, j \in Sent(uh) : (i < j /\ uh.sig[j].taken) => Processed(uh, i)
    /\ \A j \in Sent(uh) :
          (uh.log[j].type = "Plunger" /\ uh.sig[j].replies > 0) =>
              \A i \in Operations(uh) :
                  i < j => /\ Processed(uh, i)
                           /\ \/ uh.log[i].op_num \in SeqRange(uh.applied)
                              \/ uh.sig[i].wal_flush = "failed"

\* a Plunger got its reply after two Operations sent before it were applied
C14_Witness ==
    \E j \in Sent(uh) :
        /\ uh.log[j].type = "Plunger"
        /\ uh.sig[j].replies = 1
        /\ uh.applied = <<1, 2>>
        /\ \A i \in Operations(uh) : i < j

\* C15: an Operation with wait = true that the worker has taken had the WAL
\* flushed first; when that flush failed the operation was not given to the
\* updater, nothing was sent to the optimizer worker for it, and its one
\* reply is the ServiceError.  An Operation without wait flushes nothing.
C15_FlushBeforeApply ==
    \A i \in Operations(uh) :
        uh.sig[i].taken =>
            /\ ~uh.log[i].wait => uh.sig[i].wal_flush = "no"
            /\ uh.log[i].wait => uh.sig[i].wal_flush \in {"ok", "failed"}
            /\ uh.sig[i].wal_flush = "ok" => uh.log[i].op_num \in SeqRange(uh.applied)
            /\ uh.sig[i].wal_flush = "failed" =>
                  /\ uh.log[i].op_num \notin SeqRange(uh.applied)
                  /\ uh.forward_for # i
                  /\ uh.sig[i].replies = 1
                  /\ uh.sig[i].result = "ServiceError"

\* the flush of a waiting Operation failed, it was answered with the
\* ServiceError, and the waiting Operation after it was flushed and applied
C15_Witness ==
    \E i, j \in Operations(uh) :
        /\ i < j
        /\ uh.log[i].wait /\ uh.sig[i].wal_flush = "failed"
        /\ uh.sig[i].result = "ServiceError"
        /\ uh.log[j].wait /\ uh.sig[j].wal_flush = "ok"
        /\ uh.applied = <<uh.log[j].op_num>>

Replies == {"Ok", "ServiceError", "UpdateError", "SendError"}
StopTaken(u) == \E i \in Sent(u) : u.log[i].type = "Stop" /\ u.sig[i].taken

\* C16 as stated: when the update worker has terminated, every Operation
\* that was sent with a reply channel has exactly one reply.
C16_EveryOperationReplied ==
    uh.update_worker = "stopped" =>
        \A i \in Operations(uh) : uh.log[i].sender => uh.sig[i].replies = 1

\* C16 amended: an Operation never has more than one reply and has none
\* without a reply channel or before it is taken; every Operation with a
\* reply channel that the worker has processed has exactly one reply, the
\* update result or the error; the worker terminates only on Stop or on a
\* closed and drained channel, never because it replied an error, and then
\* the Operations it leaves without a reply are those it never took.
C16_TakenOperationReplied ==
    /\ \A i \in Operations(uh) :
          /\ uh.sig[i].replies <= 1
          /\ (~uh.log[i].sender \/ ~uh.sig[i].taken) => uh.sig[i].replies = 0
          /\ (uh.log[i].sender /\ Processed(uh, i)) =>
                 /\ uh.sig[i].replies = 1
                 /\ uh.sig[i].result \in Replies
    /\ uh.update_worker = "stopped" =>
          /\ StopTaken(uh) \/ (uh.closed /\ uh.update_channel = <<>>)
          /\ \A i \in Operations(uh) :
                 (uh.log[i].sender /\ uh.sig[i].replies = 0) =>
                     /\ ~uh.sig[i].taken
                     /\ \E k \in Sent(uh) : k < i /\ uh.log[k].type = "Stop"

\* two Operations were answered with an error, and the Operation sent after
\* them was processed and answered with the update result
C16_Witness ==
    /\ Len(uh.log) = 3
    /\ uh.sig[1].result = "ServiceError"
    /\ uh.sig[2].result = "UpdateError"
    /\ uh.sig[3].result = "Ok"
    /\ \A i \in 1..3 : uh.log[i].type = "Operation" /\ uh.sig[i].replies = 1

\* C18: once the update worker has taken a Stop it never takes another
\* signal: no signal sent after a Stop is ever taken, let alone applied.
\* When it has terminated, after a Stop or after its channel was closed and
\* drained, OptimizerSignal::Stop has reached the optimizer worker's channel
\* (or that worker had already terminated).  The optimizer worker terminates
\* only by taking a Stop, which only the update worker sends on leaving its loop.
C18_StopEndsBothWorkers ==
    /\ \A i, j \in Sent(uh) :
          (i < j /\ uh.log[i].type = "Stop") =>
              /\ ~uh.sig[j].taken
              /\ uh.log[j].op_num \notin SeqRange(uh.applied)
    /\ StopTaken(uh) => (uh.update_worker # "running" /\ uh.then_stop)
    /\ uh.update_worker = "stopped" =>
          /\ StopTaken(uh) \/ (uh.closed /\ uh.update_channel = <<>>)
          /\ \/ uh.optimizer_worker = "stopped"
             \/ \E k \in 1..Len(uh.optimizer_channel) : uh.optimizer_channel[k] = "Stop"
    /\ uh.optimizer_worker = "stopped" => uh.then_stop

\* both workers have terminated on a Stop, and the Operation queued behind
\* that Stop is still in the channel, not applied
C18_Witness ==
    /\ uh.update_worker = "stopped"
    /\ uh.optimizer_worker = "stopped"
    /\ \E i, j \in Sent(uh) :
          /\ i < j
          /\ uh.log[i].type = "Stop" /\ uh.sig[i].taken
          /\ uh.log[j].type = "Operation" /\ ~uh.sig[j].taken
          /\ uh.update_channel = <<uh.log[j]>>
          /\ uh.log[j].op_num \notin SeqRange(uh.applied)

\* --------------------------------------------- optimizer worker and shutdown
RunningTasks(u) == {task \in 1..MaxTasks : u.tasks[task] = "running"}

\* C17: at any moment at most max_optimization_threads optimization tasks
\* are running.
C17_TasksWithinLimit ==
    Cardinality(RunningTasks(uh)) <= max_optimization_threads

\* C19: when wait_workers_stops has returned, the update worker, the
\* optimizer worker and the flush worker have terminated and no optimization
\* task is still running.
C19_ReturnsAfterAllEnded ==
    uh.waiter = "returned" =>
        /\ uh.update_worker = "stopped"
        /\ uh.optimizer_worker = "stopped"
        /\ uh.flush_worker = "stopped"
        /\ RunningTasks(uh) = {}

Panicked(u) == {task \in 1..MaxTasks : u.tasks[task] = "panicked"}

FlushFailures == {"wal_flush_failed", "segment_flush_failed"}

\* C21: after a flush tick in which the WAL flush or the flush of a segment
\* failed, the holder has an optimizer error recorded and no version was
\* acknowledged to the WAL in that tick; the flush worker has not stopped
\* because of it: it stops only after the stop signal was sent.
C21_FlushFailureRecorded ==
    /\ uh.tick \in FlushFailures =>
          /\ holder.optimizer_errors # "none"
          /\ wal_acked = -1
          /\ flush_ret = -1
    /\ uh.flush_worker = "stopped" => uh.flush_stop = "sent"

\* a tick after the failed segment flush that is recorded on the holder
\* flushed again and acknowledged a version to the WAL
C21_Witness ==
    /\ uh.tick = "acked"
    /\ holder.optimizer_errors = "FlushError"
    /\ wal_acked # -1

\* C22: no point that was durable in the non-appendable segment and was
\* never deleted is missing from the durable state of both segments: when
\* its removal from the non-appendable segment is on disk, so is its copy in
\* the appendable segment.
C22_CopyDurableBeforeRemoval ==
    \A id \in PointsOf(InitialHolder({1}, FALSE), S2) :
        id \in uh.durable[S1] \cup uh.durable[S2]

\* ---------------------------------------------------------- merge optimizer
\* C23: after the optimization of a non-empty candidate list has completed
\* the holder has strictly fewer segments than before it, and every segment
\* that was not a candidate is still in the holder under its id, unchanged.
C23_MergeShrinksHolder ==
    merge.merged # <<>> =>
        /\ Cardinality(DOMAIN merge.segments) < Cardinality(DOMAIN merge.before)
        /\ \A sid \in DOMAIN merge.before \ SeqRange(merge.merged) :
               /\ sid \in DOMAIN merge.segments
               /\ merge.segments[sid] = merge.before[sid]
        /\ SeqRange(merge.merged) \cap DOMAIN merge.segments = {}

\* three of five segments were merged, the write segment was kept: four
\* segments are left, the two others among them
C23_Witness ==
    /\ Len(merge.merged) = 3
    /\ Cardinality(DOMAIN merge.before) = 5
    /\ Cardinality(DOMAIN merge.segments) = 4
    /\ DOMAIN merge.before \ SeqRange(merge.merged) \subseteq DOMAIN merge.segments

NonSpecial(segments) == {sid \in DOMAIN segments : ~segments[sid].special}

\* C24: when a merge pass that ran alone (no segment excluded by another
\* optimization) is over, either the number of non-special segments is at
\* most max_segments, or no set of three or more of them has a cumulative
\* size below the size limit.
C24_MergePassDone ==
    (/\ merge.pc = "passed"
     /\ merge.excluded_ids = {}
     /\ \A sid \in DOMAIN merge.segments : merge.segments[sid].kind = "Original") =>
        \/ Cardinality(NonSpecial(merge.segments)) <= merge.max_segments
        \/ \A chosen \in SUBSET NonSpecial(merge.segments) :
               Cardinality(chosen) >= 3 => SizeSum(chosen, merge.segments) >= merge.limit

\* a pass that merged once and stopped above max_segments because of the sizes
C24_Witness ==
    /\ merge.pc = "passed"
    /\ merge.excluded_ids = {}
    /\ \A sid \in DOMAIN merge.segments : merge.segments[sid].kind = "Original"
    /\ merge.optimizations >= 1
    /\ Cardinality(NonSpecial(merge.segments)) > merge.max_segments

\* ------------------------------------------------------ cardinality estimator
\* C25: when the leaf estimations bound the number of points their
\* conditions match, the estimation of a filter bounds the number of points
\* the filter matches: min <= |points(F)| <= max.
C25_EstimationBoundsCount ==
    est.pc = "estimate" =>
        /\ est.known["f"].estimation.min <= Cardinality(est.known["f"].points)
        /\ Cardinality(est.known["f"].points) <= est.known["f"].estimation.max

\* a nested filter using all three clauses whose bounds are both informative
C25_Witness ==
    /\ est.pc = "estimate"
    /\ est.depth = 2
    /\ est.clauses = {"must", "should", "must_not"}
    /\ 0 < est.known["f"].estimation.min
    /\ est.known["f"].estimation.min < est.known["f"].estimation.max
    /\ est.known["f"].estimation.max < est.total

\* C26: when the leaf estimations satisfy min <= exp <= max <= total, so
\* does the estimation of every filter, nested ones included.
C26_EstimationOrdered ==
    est.pc = "estimate" =>
        /\ est.known["f"].estimation.min <= est.known["f"].estimation.exp
        /\ est.known["f"].estimation.exp <= est.known["f"].estimation.max
        /\ est.known["f"].estimation.max <= est.total

\* a nested filter whose expected count lies strictly between its bounds
C26_Witness ==
    /\ est.pc = "estimate"
    /\ est.depth = 2
    /\ "should" \in est.clauses
    /\ est.known["f"].estimation.min < est.known["f"].estimation.exp
    /\ est.known["f"].estimation.exp < est.known["f"].estimation.max

\* ------------------------------------------- adjustment to available vectors
AdjustedBounds ==
    /\ est.adjusted.min
          = Max(0, est.estimation.min - (est.available_points - est.available_vectors))
    /\ est.adjusted.max = Min(est.estimation.max, est.available_vectors)
    /\ est.adjusted.min <= est.adjusted.exp
    /\ est.adjusted.exp <= est.adjusted.max

C28_BatchIsSearchPerVector ==
    \A sid \in Proxies(holder) :
        \A queries \in QueryLists, filter \in ReadFilters, top \in ReadTops :
            /\ Len(search_batch(holder, sid, queries, filter, top)) = Len(queries)
            /\ \A i \in 1..Len(queries) :
                   search_batch(holder, sid, queries, filter, top)[i]
                       = search(holder, sid, queries[i], filter, top)

\* a proxy with a point moved to the write segment and rewritten there: the
\* batch of two different queries ranks the points differently
C28_Witness ==
    \E sid \in Proxies(holder), id \in PointIds :
        /\ id \in holder.deleted_points
        /\ SegHasPoint(holder.store[sid], id)
        /\ SegHasPoint(holder.store[TmpId], id)
        /\ search_batch(holder, sid, <<"va", "vb">>, NoFilter, 2)[1]
              # search_batch(holder, sid, <<"va", "vb">>, NoFilter, 2)[2]
        /\ search_batch(holder, sid, <<"va", "vb">>, NoFilter, 2)[1] # <<>>

\* ------------------------------------------------- failing proxy mutation
\* what the proxy registered under sid shows for every point id
Observable(H, sid) ==
    [id \in PointIds |->
        IF ProxyHasPoint(H, sid, id)
        THEN [visible |-> TRUE, vector |-> ProxyPoint(H, sid, id).vector,
              payload |-> ProxyPoint(H, sid, id).payload]
        ELSE [visible |-> FALSE, vector |-> NoVector, payload |-> {}]]

\* C29: when a point mutation issued through a proxy returns an error, every
\* proxy shows the same points with the same vectors and payloads as before
\* the call.
C29_ErrorLeavesProxyUnchanged ==
    [][ProxyUpsertFails =>
          \A sid \in Proxies(holder) : Observable(holder', sid) = Observable(holder, sid)]_vars

\* --------------------------------------------------- LockedSegment::drop_data
\* C30: drop_data drops the segment data only when no other reference to
\* the segment is left, and a call that found the segment in use is not
\* still waiting once the timeout has passed: it has returned, with a
\* ServiceError if the data was not dropped.
C30_DropsOrTimesOut ==
    /\ drp.data = "dropped" => drp.readers = {}
    /\ drp.pc \in {"try_unwrap", "sleep"} => drp.slept <= drp.timeout
    /\ (drp.pc = "returned" /\ drp.data = "stored") => drp.result = "ServiceError"

\* ------------------------------------------------------------------ flush_all
\* C31: flush_all returns the lowest persisted version reported by a segment
\* whose version is above the persisted version it reported, when there is
\* such a segment, and otherwise the highest persisted version reported by
\* any segment (A reporting 1 at version 1 and B reporting 2 at version 3
\* give 2: the example of the specification with the versions scaled down).
C31_LowestLaggingElseHighest ==
    flush_ret # -1 =>
        IF Lagging # {}
        THEN /\ \E sid \in Lagging : flush_ret = reported[sid]
             /\ \A sid \in Lagging : flush_ret <= reported[sid]
        ELSE /\ \E sid \in Live(holder) : flush_ret = reported[sid]
             /\ \A sid \in Live(holder) : flush_ret >= reported[sid]

\* A is flushed up to its version 1, B reports 2 at version 3: the result is
\* 2, neither 1 nor 3
C31_Witness ==
    \E a \in Live(holder), b \in Live(holder) :
        /\ reported[a] = 1
        /\ EntryVersion(holder, a) = 1
        /\ reported[b] = 2
        /\ EntryVersion(holder, b) = 3
        /\ flush_ret = 2

\* -------------------------------------------------------- ProxySegment::flush
OverlayEmpty(proxy) ==
    /\ proxy.deleted_points = {}
    /\ proxy.deleted_indexes = {}
    /\ proxy.created_indexes = {}

C33_AppliesOnceOnLockedCandidate ==
    alo.pc = "on" =>
        \A t \in AlohaWriters :
            LET thread == alo.threads[t]
            IN /\ thread.result = "ServiceError" =>
                      /\ alo.appendable = {}
                      /\ thread.applied = 0
               /\ thread.applied <= 1
               /\ thread.phase = "applied" =>
                      /\ thread.applied = 1
                      /\ thread.applied_on \in alo.appendable
                      /\ thread.applied_locked
               /\ thread.phase = "slow" => thread.tried = Len(thread.candidates)
               /\ (thread.phase = "failed" /\ thread.pc = "done") =>
                      thread.result = "ServiceError"

\* a call that found every candidate busy in the first loop and applied on
\* the candidate that became free
C33_Witness ==
    /\ alo.pc = "on"
    /\ \E t \in AlohaWriters :
          /\ alo.threads[t].phase = "applied"
          /\ alo.threads[t].tried = Len(alo.threads[t].candidates)
          /\ alo.threads[t].backoff > 0
          /\ alo.threads[t].applied = 1

\* C34: update threads in apply_points_to_appendable and readers never
\* deadlock: while a thread is unfinished, some unfinished thread is not
\* waiting for a lock, and a thread inside aloha_random_write is not waiting
\* when one of its candidates is free.
C34_NeverAllWaiting ==
    alo.pc = "on" =>
        /\ Unfinished # {} => \E t \in Unfinished : ~Waiting(t)
        /\ \A t \in AlohaWriters :
              (/\ alo.threads[t].pc = "aloha"
               /\ alo.threads[t].phase = "slow"
               /\ \E c \in alo.appendable : CanWrite(alo.locks[c])) =>
                  ENABLED (SlowTryWrite(t) /\ alo.threads[t].pc' = "locked")

\* both update threads hold the write lock of a non-appendable segment and
\* wait for the only appendable one, which the reader holds
C34_Witness ==
    /\ alo.pc = "on"
    /\ \A t \in AlohaWriters : alo.threads[t].phase = "slow" /\ Waiting(t)
    /\ \E t \in AlohaReaders : alo.threads[t].pc = "reading"

\* -------------------------------------------- signal to the optimizer worker
Forwarding(u, i) == u.update_worker = "forwarding" /\ u.forward_for = i

\* C35 as stated: every processed Operation has had Operation(op_num) sent
\* to the optimizer worker, and the send comes after the reply.
C35_EveryOperationNotifiesAfterReply ==
    uh.pc = "on" =>
        \A i \in Operations(uh) :
            /\ Processed(uh, i) => uh.sig[i].notify # "none"
            /\ (Forwarding(uh, i) /\ uh.log[i].sender) => uh.sig[i].replies = 1

\* C35: Operation(op_num) is sent to the optimizer worker exactly for the
\* Operations whose WAL flush and update succeeded, after the operation was
\* applied and before the reply, which reports a failed send.
C35_SuccessNotifiesBeforeReply ==
    uh.pc = "on" =>
        \A i \in Operations(uh) :
            /\ Processed(uh, i) =>
                   (uh.sig[i].notify # "none" <=>
                        (uh.sig[i].wal_flush # "failed" /\ uh.sig[i].update = "ok"))
            /\ Forwarding(uh, i) =>
                   /\ uh.sig[i].update = "ok"
                   /\ \E k \in 1..Len(uh.applied) : uh.applied[k] = uh.log[i].op_num
                   /\ uh.sig[i].replies = 0
                   /\ uh.sig[i].notify = "none"
            /\ (uh.sig[i].notify # "none" /\ uh.log[i].sender) =>
                   /\ uh.sig[i].replies = 1
                   /\ uh.sig[i].result = IF uh.sig[i].notify = "sent" THEN "Ok"
                                         ELSE "SendError"

\* an Operation whose update failed was replied to and not sent on, and a
\* later one that succeeded was sent on
C35_Witness ==
    /\ uh.pc = "on"
    /\ \E i, j \in Operations(uh) :
          /\ i < j
          /\ Processed(uh, i) /\ uh.sig[i].update = "failed"
          /\ uh.sig[i].result = "UpdateError" /\ uh.sig[i].notify = "none"
          /\ Processed(uh, j) /\ uh.sig[j].notify = "sent" /\ uh.sig[j].result = "Ok"


\* ------------------------------------------------- optimizer worker: recovery
\* the operations first..last in WAL order
WalFrom(first, last) == [i \in 1..(last - first + 1) |-> first + i - 1]

Replayed(turn) ==
    IF turn.failed_before = {} THEN turn.replayed = <<>>
    ELSE /\ turn.replayed # <<>>
         /\ turn.replayed = WalFrom(SetMin(turn.failed_before),
                                     turn.replayed[Len(turn.replayed)])
         /\ ~turn.err => turn.replayed[Len(turn.replayed)] = turn.wal

\* C36 as stated: every Operation or Nop signal is answered with the replay
\* of the WAL from the smallest failed op_num; a failed replay launches
\* nothing and leaves the worker running.
C36_EverySignalReplays ==
    (uh.pc = "recover" /\ uh.turn.signal \in {"Operation", "Nop"}) =>
        /\ Replayed(uh.turn)
        /\ uh.turn.err => ~uh.turn.launched
        /\ uh.optimizer_worker = "running"

\* C36: an Operation signal that arrives while optimization_handles holds
\* max_optimization_threads handles or more is dropped without replay; every
\* other Operation or Nop signal replays the WAL in order from the smallest
\* failed op_num up to the first error, launches optimizations only after a
\* replay without error, and the worker keeps running either way.
C36_ReplaysUnlessSkipped ==
    (uh.pc = "recover" /\ uh.turn.signal \in {"Operation", "Nop"}) =>
        /\ uh.turn.skipped <=> (/\ uh.turn.signal = "Operation"
                                /\ uh.turn.handles_before >= max_optimization_threads)
        /\ uh.turn.skipped => (uh.turn.replayed = <<>> /\ ~uh.turn.launched)
        /\ ~uh.turn.skipped =>
              /\ Replayed(uh.turn)
              /\ uh.turn.launched <=> ~uh.turn.err
              /\ uh.turn.err =>
                    uh.turn.replayed[Len(uh.turn.replayed)] \in uh.turn.failed_after
              /\ ~uh.turn.err => uh.turn.failed_after = {}
        /\ uh.optimizer_worker = "running"

\* a turn that replayed the operations 2 and 3 after operation 2 had failed,
\* failed again on 3 and launched nothing
C36_Witness ==
    /\ uh.pc = "recover"
    /\ uh.turn.signal = "Nop"
    /\ uh.turn.failed_before = {2}
    /\ uh.turn.replayed = <<2, 3>>
    /\ uh.turn.err
    /\ ~uh.turn.launched
    /\ uh.optimizer_worker = "running"

\* ------------------------------------------------- check_condition's result
Qualifying(m) ==
    {sid \in DOMAIN m.segments : /\ m.segments[sid].kind = "Original"
                                 /\ ~m.segments[sid].special
                                 /\ sid \notin m.excluded_ids}

\* C37: check_condition returns nothing or at least three ids; the ids are
\* original, non-special segments outside excluded_ids, the smallest of them
\* in ascending size, with a cumulative size below the limit; it returns
\* nothing when fewer than three segments qualify and when the holder has no
\* more than max_segments segments.
C37_ThreeSmallestOriginals ==
    merge.pc \in {"optimize", "passed"} =>
        LET result == merge.candidates
            chosen == SeqRange(result)
        IN /\ result = <<>> \/ Len(result) >= 3
           /\ Cardinality(chosen) = Len(result)
           /\ chosen \subseteq Qualifying(merge)
           /\ \A i, j \in 1..Len(result) :
                 i < j => merge.segments[result[i]].size <= merge.segments[result[j]].size
           /\ \A sid \in chosen, other \in Qualifying(merge) \ chosen :
                 merge.segments[sid].size <= merge.segments[other].size
           /\ result # <<>> => SizeSum(chosen, merge.segments) < merge.limit
           /\ Cardinality(Qualifying(merge)) < 3 => result = <<>>
           /\ Cardinality(DOMAIN merge.segments) <= merge.max_segments => result = <<>>

\* three segments are proposed while a smaller proxy and a larger original
\* segment are left out
C37_Witness ==
    /\ merge.pc = "optimize"
    /\ Len(merge.candidates) = 3
    /\ \E sid \in DOMAIN merge.segments :
          /\ merge.segments[sid].kind = "Proxy"
          /\ \A c \in SeqRange(merge.candidates) :
                merge.segments[sid].size < merge.segments[c].size
    /\ Qualifying(merge) \ SeqRange(merge.candidates) # {}


\* ------------------------------------------------------------ proxy search
\* the points of a segment that a search with the filter may return
Searchable(s, filter) ==
    {id \in DOMAIN s.points : /\ s.points[id].present
                              /\ s.points[id].vector # NoVector
                              /\ CheckFilter(filter, id, s.points[id])}

\* C38: whatever was written through a proxy, its search returns the best
\* top points of the wrapped segment that pass the caller's filter (must and
\* must_not) and are not in deleted_points, followed by the write segment's
\* result for the caller's filter; with deleted_points empty the wrapped part
\* is the wrapped segment's result for the caller's filter.
C38_SearchIsWrappedThenWrite ==
    \A sid \in Proxies(holder) :
        \A query \in Vectors, filter \in ReadFilters, top \in ReadTops :
            \E res \in {search(holder, sid, query, filter, top)} :
            \E write_result \in {SegSearchVector(holder.store[TmpId], query, filter, top)} :
            \E wrapped_len \in {Len(res) - Len(write_result)} :
                /\ wrapped_len >= 0
                /\ SubSeq(res, wrapped_len + 1, Len(res)) = write_result
                /\ SubSeq(res, 1, wrapped_len)
                      = Take(BestFirst(Searchable(holder.store[sid], filter)
                                           \ holder.deleted_points,
                                       holder.store[sid], query), top)
                /\ holder.deleted_points = {} =>
                      SubSeq(res, 1, wrapped_len)
                          = SegSearchVector(holder.store[sid], query, filter, top)

\* a proxy with a deleted point whose wrapped segment holds a point that the
\* caller's must_not condition rejects and one that it lets through
C38_Witness ==
    \E sid \in Proxies(holder) :
        /\ holder.deleted_points # {}
        /\ (Searchable(holder.store[sid], NoFilter)
               \ Searchable(holder.store[sid], MustNotFilter(FieldCondition("k"))))
              \ holder.deleted_points # {}
        /\ search(holder, sid, "va", MustNotFilter(FieldCondition("k")), 2)
              # search(holder, sid, "va", NoFilter, 2)


\* ------------------------------------------------------------ proxy counts
VisiblePoints(H, sid) == {id \in PointIds : ProxyHasPoint(H, sid, id)}

VisibleVectors(H, sid) ==
    {id \in VisiblePoints(H, sid) : ProxyPoint(H, sid, id).vector # NoVector}

\* C39: whatever was written through a proxy that is the only one of the
\* holder, its available_point_count and info().num_points equal the number
\* of points visible through it and its info().num_vectors equals the number
\* of vectors visible through it.
C39_CountsAreVisible ==
    \A sid \in Proxies(holder) :
        Proxies(holder) = {sid} =>
        /\ available_point_count(holder, sid) = Cardinality(VisiblePoints(holder, sid))
        /\ info(holder, sid).num_points = Cardinality(VisiblePoints(holder, sid))
        /\ info(holder, sid).num_vectors = Cardinality(VisibleVectors(holder, sid))


\* --------------------------------------------------- launch_optimization
RunningLaunched(u) == {task \in 1..Len(u.tasks) : u.tasks[task].state # "finished"}

\* C40: no two optimization tasks that are spawned and not finished have a
\* victim in common, whether they were spawned by one call of
\* launch_optimization or by successive calls.
C40_NoSharedVictim ==
    uh.pc = "launch" =>
        \A a, b \in RunningLaunched(uh) :
            a # b => uh.tasks[a].victims \cap uh.tasks[b].victims = {}

====
